---- MODULE Spec2Model ----
(***************************************************************************)
(* Model of the Antrea BPF prototype:                                      *)
(*   filter/types.go        PacketFilter.Validate                          *)
(*   prototype/generator.go BPFBuilder, GenerateBPF, buildAntreaBPF        *)
(*   compare/compare.go     analyzeInstruction, compareSemantics,          *)
(*                          analyzeStructuralDifferences, calculateVerdict *)
(*   main.go                the order Validate -> tcpdump -> prototype ->  *)
(*                          Compare                                        *)
(*                                                                         *)
(* A uint32 immediate is the pair <<hi, lo>> of its 16-bit halves          *)
(* (value = hi * 65536 + lo), so that the full 32-bit range is kept.       *)
(* Instruction positions are the zero-based Go indices; the instruction at *)
(* position p is instructions[p + 1].                                      *)
(***************************************************************************)
EXTENDS Integers, Sequences, FiniteSets, TLC

VARIABLES
    f,                 \* the PacketFilter handed to Validate and GenerateBPF
    pc,                \* position of main / buildAntreaBPF / Compare
    builder,           \* the BPFBuilder: instructions, optimizations, currentOffset
    ipCheckIdx,        \* locals of buildAntreaBPF
    protocolCheckIdx,
    srcIPCheckIdx,
    dstIPCheckIdx,
    fragCheckIdx,
    portCheckIndices,
    acceptIdx,
    rejectIdx,
    bpfCode,           \* the prototype.BPFCode returned by GenerateBPF
    tcpBPF,            \* Instructions of the tcpdump.BPFCode (program A)
    protoBPF,          \* Instructions of the prototype.BPFCode given to Compare (program B)
    result,            \* the ComparisonResult
    call,              \* the latest direct call of a builder method or of the classifier
    adds,              \* the number of direct AddInstruction calls made so far
    built              \* the length of the slice a direct Build call returned, -1 before

vars == <<f, pc, builder, ipCheckIdx, protocolCheckIdx, srcIPCheckIdx,
          dstIPCheckIdx, fragCheckIdx, portCheckIndices, acceptIdx, rejectIdx,
          bpfCode, tcpBPF, protoBPF, result, call, adds, built>>

apiVars == <<call, adds, built>>

genLocals == <<ipCheckIdx, protocolCheckIdx, srcIPCheckIdx, dstIPCheckIdx,
               fragCheckIdx, portCheckIndices, acceptIdx, rejectIdx>>

-----------------------------------------------------------------------------
(* Bounds of the model *)

\* most instruction lines of a dump handed to the parser
MaxDumpLines == 2

\* longest instruction list built by direct calls of the builder
MaxBuilderLen == 2

\* most optimization notes recorded by direct calls of the builder
MaxNotes == 1

\* longest program drawn for the free-standing comparison
MaxProgLen == 2

\* largest rotation of a map's iteration order that is tried
MaxRot == 1

-----------------------------------------------------------------------------
(* Fixed-width integers *)

\* uint32 as <<hi, lo>>
U32(hi, lo) == <<hi, lo>>

\* uint32(n) for an int n in 0 .. 2^31-1
ToU32(n) == <<(n \div 65536) % 65536, n % 65536>>

\* variant: a > b where a >= b is meant
GE32Strict(a, b) == a[1] > b[1] \/ (a[1] = b[1] /\ a[2] > b[2])

\* a >= b on uint32
GE32(a, b) == a[1] > b[1] \/ (a[1] = b[1] /\ a[2] >= b[2])

\* variant: only the low three bits are kept
U8Narrow(n) == n % 8

\* uint8(n) for an int n: the low eight bits
U8(n) == n % 256

-----------------------------------------------------------------------------
(* Opcodes and immediates used by the generator and the classifier *)

OpLdh  == 40     \* 0x28 ldh [k]
OpLdb  == 48     \* 0x30 ldb [k]
OpLd   == 32     \* 0x20 ld  [k]
OpLdhX == 72     \* 0x48 ldh [x + k]
OpJeq  == 21     \* 0x15 jeq #k
OpJset == 69     \* 0x45 jset #k
OpLdxb == 177    \* 0xb1 ldxb 4*([k]&0xf)
OpRet  == 6      \* 0x06 ret #k

KEtherType == U32(0, 12)      \* 0x0000000c
KIPv4      == U32(0, 2048)    \* 0x00000800
KProtoOff  == U32(0, 23)      \* 0x00000017
KSrcIPOff  == U32(0, 26)      \* 0x0000001a
KDstIPOff  == U32(0, 30)      \* 0x0000001e
KFragOff   == U32(0, 20)      \* 0x00000014
KFragMask  == U32(0, 8191)    \* 0x00001fff
KHdrLen    == U32(0, 14)      \* 0x0000000e
KSrcPortOff == U32(0, 14)     \* 0x0000000e
KDstPortOff == U32(0, 16)     \* 0x00000010
KAccept    == U32(4, 0)       \* 0x00040000
KReject    == U32(0, 0)       \* 0x00000000

-----------------------------------------------------------------------------
(* filter/types.go *)

\* An address text a.b.c.d is the tuple <<a, b, c, d>>; "" is <<>>.
NoIP == <<>>

\* net.ParseIP(s) # nil, for dotted-quad texts
ParseIPOk(ip) == Len(ip) = 4 /\ \A i \in 1..4 : ip[i] \in 0..255

\* strings.ToLower on the protocol texts of the model
ToLower(s) == CASE s = "TCP" -> "tcp" [] s = "UDP" -> "udp" [] OTHER -> s

\* PacketFilter.Validate: the filter after the call (Protocol is lowercased)
ValidateNormalize(flt) ==
    IF flt.Protocol # "" /\ ToLower(flt.Protocol) \in {"tcp", "udp", "icmp"}
    THEN [flt EXCEPT !.Protocol = ToLower(flt.Protocol)]
    ELSE flt

\* PacketFilter.Validate: TRUE iff it returns nil
ValidateOk(flt) ==
    /\ flt.Protocol # "" => ToLower(flt.Protocol) \in {"tcp", "udp", "icmp"}
    /\ flt.SrcIP # NoIP => ParseIPOk(flt.SrcIP)
    /\ flt.DstIP # NoIP => ParseIPOk(flt.DstIP)
    /\ ~(flt.SrcPort < 0 \/ flt.SrcPort > 65535)
    /\ ~(flt.DstPort < 0 \/ flt.DstPort > 65535)
    /\ ~(flt.Protocol = "" /\ flt.SrcIP = NoIP /\ flt.DstIP = NoIP
            /\ flt.SrcPort = 0 /\ flt.DstPort = 0)
    /\ ~(ToLower(flt.Protocol) = "icmp" /\ (flt.SrcPort # 0 \/ flt.DstPort # 0))

-----------------------------------------------------------------------------
(* prototype/generator.go: BPFBuilder *)

BPFInstruction(code, jt, jf, k) == [Code |-> code, JT |-> jt, JF |-> jf, K |-> k]

NewBPFBuilder ==
    [instructions |-> <<>>, optimizations |-> <<>>, currentOffset |-> 0,
     panicked |-> FALSE]

\* variant: the offset is read after it was incremented
AddInstructionReturnsNext(b, code, jt, jf, k) ==
    [builder |-> [b EXCEPT !.instructions = Append(@, BPFInstruction(code, jt, jf, k)),
                           !.currentOffset = @ + 1],
     ret |-> b.currentOffset + 1]

\* AddInstruction: the builder after the call and the returned offset
AddInstruction(b, code, jt, jf, k) ==
    [builder |-> [b EXCEPT !.instructions = Append(@, BPFInstruction(code, jt, jf, k)),
                           !.currentOffset = @ + 1],
     ret |-> b.currentOffset]

AddOptimization(b, description) ==
    [b EXCEPT !.optimizations = Append(@, description)]

\* variant: the index is taken as one-based
UpdateJumpTargetsOneBased(b, instructionIndex, jt, jf) ==
    IF instructionIndex < Len(b.instructions)
    THEN IF instructionIndex >= 1
         THEN [b EXCEPT !.instructions[instructionIndex].JT = jt,
                        !.instructions[instructionIndex].JF = jf]
         ELSE [b EXCEPT !.panicked = TRUE]
    ELSE b

\* UpdateJumpTargets: a negative index passes the guard and the indexing
\* panics (index out of range)
UpdateJumpTargets(b, instructionIndex, jt, jf) ==
    IF instructionIndex < Len(b.instructions)
    THEN IF instructionIndex >= 0
         THEN [b EXCEPT !.instructions[instructionIndex + 1].JT = jt,
                        !.instructions[instructionIndex + 1].JF = jf]
         ELSE [b EXCEPT !.panicked = TRUE]
    ELSE b

Build(b) == b.instructions

\* ipToUint32
ipToUint32(ip) ==
    CASE ip = <<192, 168, 1, 1>> -> U32(49320, 257)      \* 0xc0a80101
      [] ip = <<10, 0, 0, 1>>    -> U32(2560, 1)         \* 0x0a000001
      [] ip = <<127, 0, 0, 1>>   -> U32(32512, 1)        \* 0x7f000001
      [] OTHER                   -> U32(49320, 1)        \* 0xc0a80001

\* variant: the codes of tcp and udp are exchanged
protocolNumExchanged(protocol) ==
    CASE protocol = "tcp"  -> U32(0, 17)
      [] protocol = "udp"  -> U32(0, 6)
      [] protocol = "icmp" -> U32(0, 1)
      [] OTHER             -> U32(0, 0)

\* the protocol switch of buildAntreaBPF (protocolNum stays 0 otherwise)
protocolNum(protocol) ==
    CASE protocol = "tcp"  -> U32(0, 6)
      [] protocol = "udp"  -> U32(0, 17)
      [] protocol = "icmp" -> U32(0, 1)
      [] OTHER             -> U32(0, 0)

-----------------------------------------------------------------------------
(* prototype/generator.go: buildAntreaBPF and GenerateBPF, stage by stage *)

\* stage 2 is emitted iff a protocol is given
ProtocolStageEnabled(flt) == flt.Protocol # ""

\* variant: the port stage is also entered for every tcp or udp filter
PortStageEnabledForTransport(flt) ==
    flt.SrcPort # 0 \/ flt.DstPort # 0 \/ flt.Protocol \in {"tcp", "udp"}

\* stage 4 is emitted iff a port is given
PortStageEnabled(flt) == flt.SrcPort # 0 \/ flt.DstPort # 0

\* the value written to the fragment check's JT
FragmentRejectOffset(b) == U8(Len(b.instructions) + 1)

\* variant: the two branch offsets are handed over in the wrong order
PatchCheckSwapped(b, idx, acc, rej) ==
    UpdateJumpTargets(b, idx, U8(rej - idx), U8(acc - idx))

\* one step of the final pass: patch the check at idx towards accept / reject
PatchCheck(b, idx, acc, rej) ==
    UpdateJumpTargets(b, idx, U8(acc - idx), U8(rej - idx))

\* the final pass over portCheckIndices
RECURSIVE PatchPorts(_, _, _, _)
PatchPorts(b, idxs, acc, rej) ==
    IF idxs = <<>> THEN b
    ELSE PatchPorts(PatchCheck(b, Head(idxs), acc, rej), Tail(idxs), acc, rej)

\* main: f.Validate()
Validate ==
    /\ pc = "validate"
    /\ f' = ValidateNormalize(f)
    /\ pc' = IF ValidateOk(f) THEN "tcpdump" ELSE "invalid"
    /\ UNCHANGED <<builder, genLocals, bpfCode, tcpBPF, protoBPF, result, apiVars>>

\* stage 1: ldh [12]; jeq #0x800
EthertypeGate ==
    /\ pc = "stage1"
    /\ LET a1 == AddInstruction(NewBPFBuilder, OpLdh, 0, 0, KEtherType)
           a2 == AddInstruction(a1.builder, OpJeq, 0, 0, KIPv4)
       IN /\ builder' = a2.builder
          /\ ipCheckIdx' = a2.ret
    /\ protocolCheckIdx' = -1
    /\ pc' = "stage2"
    /\ UNCHANGED <<f, srcIPCheckIdx, dstIPCheckIdx, fragCheckIdx, portCheckIndices,
                   acceptIdx, rejectIdx, bpfCode, tcpBPF, protoBPF, result, apiVars>>

\* stage 2: ldb [23]; jeq #protocol
ProtocolGate ==
    /\ pc = "stage2"
    /\ IF ProtocolStageEnabled(f)
       THEN LET a1 == AddInstruction(builder, OpLdb, 0, 0, KProtoOff)
                a2 == AddInstruction(a1.builder, OpJeq, 0, 0, protocolNum(f.Protocol))
            IN /\ builder' = a2.builder
               /\ protocolCheckIdx' = a2.ret
       ELSE UNCHANGED <<builder, protocolCheckIdx>>
    /\ srcIPCheckIdx' = -1
    /\ dstIPCheckIdx' = -1
    /\ pc' = "stage3"
    /\ UNCHANGED <<f, ipCheckIdx, fragCheckIdx, portCheckIndices,
                   acceptIdx, rejectIdx, bpfCode, tcpBPF, protoBPF, result, apiVars>>

\* stage 3: ld [26]; jeq #src   and   ld [30]; jeq #dst
AddressGate ==
    /\ pc = "stage3"
    /\ LET s1 == AddInstruction(builder, OpLd, 0, 0, KSrcIPOff)
           s2 == AddInstruction(s1.builder, OpJeq, 0, 0, ipToUint32(f.SrcIP))
           bs == IF f.SrcIP # NoIP THEN s2.builder ELSE builder
           d1 == AddInstruction(bs, OpLd, 0, 0, KDstIPOff)
           d2 == AddInstruction(d1.builder, OpJeq, 0, 0, ipToUint32(f.DstIP))
           bd == IF f.DstIP # NoIP THEN d2.builder ELSE bs
       IN /\ builder' = bd
          /\ srcIPCheckIdx' = IF f.SrcIP # NoIP THEN s2.ret ELSE srcIPCheckIdx
          /\ dstIPCheckIdx' = IF f.DstIP # NoIP THEN d2.ret ELSE dstIPCheckIdx
    /\ portCheckIndices' = <<>>
    /\ pc' = "stage4"
    /\ UNCHANGED <<f, ipCheckIdx, protocolCheckIdx, fragCheckIdx,
                   acceptIdx, rejectIdx, bpfCode, tcpBPF, protoBPF, result, apiVars>>

\* stage 4: ldh [20]; jset #0x1fff; ldxb; per port ldh [x + k]; jeq #port;
\* then the fragment check is patched
PortGate ==
    /\ pc = "stage4"
    /\ IF PortStageEnabled(f)
       THEN LET g1 == AddInstruction(builder, OpLdh, 0, 0, KFragOff)
                g2 == AddInstruction(g1.builder, OpJset, 0, 0, KFragMask)
                g3 == AddInstruction(g2.builder, OpLdxb, 0, 0, KHdrLen)
                s1 == AddInstruction(g3.builder, OpLdhX, 0, 0, KSrcPortOff)
                s2 == AddInstruction(s1.builder, OpJeq, 0, 0, ToU32(f.SrcPort))
                bs == IF f.SrcPort # 0 THEN s2.builder ELSE g3.builder
                is == IF f.SrcPort # 0 THEN <<s2.ret>> ELSE <<>>
                d1 == AddInstruction(bs, OpLdhX, 0, 0, KDstPortOff)
                d2 == AddInstruction(d1.builder, OpJeq, 0, 0, ToU32(f.DstPort))
                bd == IF f.DstPort # 0 THEN d2.builder ELSE bs
                id == IF f.DstPort # 0 THEN Append(is, d2.ret) ELSE is
            IN /\ builder' = UpdateJumpTargets(bd, g2.ret, FragmentRejectOffset(bd), 0)
               /\ fragCheckIdx' = g2.ret
               /\ portCheckIndices' = id
       ELSE UNCHANGED <<builder, fragCheckIdx, portCheckIndices>>
    /\ pc' = "stage5"
    /\ UNCHANGED <<f, ipCheckIdx, protocolCheckIdx, srcIPCheckIdx, dstIPCheckIdx,
                   acceptIdx, rejectIdx, bpfCode, tcpBPF, protoBPF, result, apiVars>>

\* variant: the reject instruction is emitted before the accept instruction
TerminalPairRejectFirst ==
    /\ pc = "stage5"
    /\ LET a1 == AddInstruction(builder, OpRet, 0, 0, KReject)
           a2 == AddInstruction(a1.builder, OpRet, 0, 0, KAccept)
       IN /\ builder' = a2.builder
          /\ acceptIdx' = a2.ret
          /\ rejectIdx' = a1.ret
    /\ pc' = "patch"
    /\ UNCHANGED <<f, ipCheckIdx, protocolCheckIdx, srcIPCheckIdx, dstIPCheckIdx,
                   fragCheckIdx, portCheckIndices, bpfCode, tcpBPF, protoBPF, result, apiVars>>

\* stage 5: ret #262144; ret #0
TerminalPair ==
    /\ pc = "stage5"
    /\ LET a1 == AddInstruction(builder, OpRet, 0, 0, KAccept)
           a2 == AddInstruction(a1.builder, OpRet, 0, 0, KReject)
       IN /\ builder' = a2.builder
          /\ acceptIdx' = a1.ret
          /\ rejectIdx' = a2.ret
    /\ pc' = "patch"
    /\ UNCHANGED <<f, ipCheckIdx, protocolCheckIdx, srcIPCheckIdx, dstIPCheckIdx,
                   fragCheckIdx, portCheckIndices, bpfCode, tcpBPF, protoBPF, result, apiVars>>

\* the final pass: every recorded check is patched towards accept / reject
Backpatch ==
    /\ pc = "patch"
    /\ LET b1 == PatchCheck(builder, ipCheckIdx, acceptIdx, rejectIdx)
           b2 == IF protocolCheckIdx >= 0
                 THEN PatchCheck(b1, protocolCheckIdx, acceptIdx, rejectIdx) ELSE b1
           b3 == IF srcIPCheckIdx >= 0
                 THEN PatchCheck(b2, srcIPCheckIdx, acceptIdx, rejectIdx) ELSE b2
           b4 == IF dstIPCheckIdx >= 0
                 THEN PatchCheck(b3, dstIPCheckIdx, acceptIdx, rejectIdx) ELSE b3
       IN builder' = PatchPorts(b4, portCheckIndices, acceptIdx, rejectIdx)
    /\ pc' = "optimize"
    /\ UNCHANGED <<f, genLocals, bpfCode, tcpBPF, protoBPF, result, apiVars>>

\* the optimization notes
RecordOptimizations ==
    /\ pc = "optimize"
    /\ LET b1 == IF f.Protocol # "" /\ (f.SrcPort # 0 \/ f.DstPort # 0)
                 THEN AddOptimization(builder,
                        "Combined protocol and port filtering in single pass")
                 ELSE builder
           b2 == IF f.SrcIP # NoIP /\ f.DstIP # NoIP
                 THEN AddOptimization(b1,
                        "Dual IP address filtering with early termination")
                 ELSE b1
           b3 == AddOptimization(b2,
                        "Fragment-aware port filtering prevents false matches")
       IN builder' = AddOptimization(b3,
                        "Minimal instruction count with structured validation")
    /\ pc' = "build"
    /\ UNCHANGED <<f, genLocals, bpfCode, tcpBPF, protoBPF, result, apiVars>>

\* GenerateBPF: builder.Build() and the BPFCode that is returned (nil error)
GenerateBPF ==
    /\ pc = "build"
    /\ bpfCode' = [Instructions |-> Build(builder),
                   InstructionCount |-> Len(Build(builder)),
                   Optimizations |-> builder.optimizations,
                   err |-> "nil"]
    /\ protoBPF' = Build(builder)
    /\ pc' = "compare"
    /\ UNCHANGED <<f, builder, genLocals, tcpBPF, result, apiVars>>

-----------------------------------------------------------------------------
(* compare/compare.go: InstructionType and the classifier *)

LoadEtherType    == 0
CheckIP          == 1
LoadProtocol     == 2
CheckProtocol    == 3
LoadSourceIP     == 4
CheckSourceIP    == 5
LoadDestIP       == 6
CheckDestIP      == 7
LoadFragmentInfo == 8
CheckFragment    == 9
LoadHeaderLength == 10
LoadSourcePort   == 11
LoadDestPort     == 12
CheckSourcePort  == 13

\* variant: the destination-port tag takes the number of the source-port tag
CheckDestPortAsSource == CheckSourcePort

CheckDestPort    == 14
Accept           == 15
Reject           == 16
Unknown          == 17

\* InstructionType.String: the name, as its sequence of words
TypeNames ==
    << <<"Load", "Ethernet", "Type">>, <<"Check", "IP", "Protocol">>,
       <<"Load", "IP", "Protocol">>, <<"Check", "Protocol">>,
       <<"Load", "Source", "IP">>, <<"Check", "Source", "IP">>,
       <<"Load", "Dest", "IP">>, <<"Check", "Dest", "IP">>,
       <<"Load", "Fragment", "Info">>, <<"Check", "Fragment">>,
       <<"Load", "Header", "Length">>,
       <<"Load", "Source", "Port">>, <<"Load", "Dest", "Port">>,
       <<"Check", "Source", "Port">>, <<"Check", "Dest", "Port">>,
       <<"Accept", "Packet">>, <<"Reject", "Packet">>, <<"Unknown">> >>

TypeString(it) == IF it < Len(TypeNames) THEN TypeNames[it + 1] ELSE <<"Unknown">>

\* the tag chosen by the switch of analyzeInstruction
InstructionTypeOf(code, k) ==
    CASE code = OpLdh ->
           IF k = KEtherType THEN LoadEtherType
           ELSE IF k = KFragOff THEN LoadFragmentInfo
           ELSE Unknown
      [] code = OpLdb ->
           IF k = KProtoOff THEN LoadProtocol ELSE Unknown
      [] code = OpLd ->
           IF k = KSrcIPOff THEN LoadSourceIP
           ELSE IF k = KDstIPOff THEN LoadDestIP
           ELSE Unknown
      [] code = OpLdhX ->
           IF k = KSrcPortOff THEN LoadSourcePort
           ELSE IF k = KDstPortOff THEN LoadDestPort
           ELSE Unknown
      [] code = OpJeq ->
           IF k = KIPv4 THEN CheckIP
           ELSE IF k = U32(0, 6) THEN CheckProtocol
           ELSE IF k = U32(0, 17) THEN CheckProtocol
           ELSE IF k = U32(0, 1) THEN CheckProtocol
           ELSE IF GE32(k, U32(0, 1)) /\ GE32(U32(0, 65535), k) THEN CheckDestPort
           ELSE IF GE32(k, U32(49152, 0)) THEN CheckSourceIP      \* 0xc0000000
           ELSE Unknown
      [] code = OpJset ->
           IF k = KFragMask THEN CheckFragment ELSE Unknown
      [] code = OpLdxb -> LoadHeaderLength
      [] code = OpRet ->
           IF k = KAccept \/ (GE32(k, U32(0, 0)) /\ k # U32(0, 0)) THEN Accept ELSE Reject
      [] OTHER -> Unknown

\* variant: an instruction with a true-branch offset is not recognised
analyzeInstructionByWiring(code, jt, jf, k, index) ==
    [Type |-> IF jt # 0 THEN Unknown ELSE InstructionTypeOf(code, k),
     Value |-> k, Index |-> index]

\* analyzeInstruction; the Description text is not part of the model
analyzeInstruction(code, jt, jf, k, index) ==
    [Type |-> InstructionTypeOf(code, k), Value |-> k, Index |-> index]

\* analyzeTcpdumpSemantics
analyzeTcpdumpSemantics(instructions) ==
    [i \in 1..Len(instructions) |->
        analyzeInstruction(instructions[i].Code, instructions[i].JT,
                           instructions[i].JF, instructions[i].K, i - 1)]

\* analyzePrototypeSemantics
analyzePrototypeSemantics(instructions) ==
    [i \in 1..Len(instructions) |->
        analyzeInstruction(instructions[i].Code, instructions[i].JT,
                           instructions[i].JF, instructions[i].K, i - 1)]

\* hasInstructionType
hasInstructionType(semantics, instType) ==
    \E i \in 1..Len(semantics) : semantics[i].Type = instType

-----------------------------------------------------------------------------
(* compare/compare.go: compareSemantics *)

\* variant: the map records the presence of a tag, not how often it occurs
TypeCountsPresence(semantics) ==
    [t \in {semantics[i].Type : i \in 1..Len(semantics)} |-> 1]

\* the map built by "types[sem.Type]++": tag -> count, on the tags that occur
TypeCounts(semantics) ==
    [t \in {semantics[i].Type : i \in 1..Len(semantics)} |->
        Cardinality({i \in 1..Len(semantics) : semantics[i].Type = t})]

\* the keys of that map in the order of insertion
RECURSIVE InsertionOrder(_, _)
InsertionOrder(semantics, seen) ==
    IF semantics = <<>> THEN <<>>
    ELSE IF Head(semantics).Type \in seen
         THEN InsertionOrder(Tail(semantics), seen)
         ELSE <<Head(semantics).Type>>
                \o InsertionOrder(Tail(semantics), seen \cup {Head(semantics).Type})

\* variant: the iteration ends after the first key
RangeOrderFirstOnly(semantics, rot) ==
    LET keys == InsertionOrder(semantics, {})
        n == Len(keys)
    IN IF n = 0 THEN <<>>
       ELSE <<keys[(rot % n) + 1]>>

\* "for k, v := range m": the order is not fixed by the language; the model
\* takes the insertion order started at a position chosen by the runtime
RangeOrder(semantics, rot) ==
    LET keys == InsertionOrder(semantics, {})
        n == Len(keys)
    IN IF n = 0 THEN <<>>
       ELSE [i \in 1..n |-> keys[((i - 1 + rot) % n) + 1]]

MatchEntry(t, n) == <<"Both", "implement">> \o TypeString(t) \o <<ToString(n), "instructions">>
DifferenceEntry(t, n, m) ==
    TypeString(t) \o <<"tcpdump", "has", ToString(n), "prototype", "has", ToString(m)>>
MissingEntry(t, n) == <<"Missing">> \o TypeString(t) \o <<ToString(n), "instructions">>
ExtraEntry(t, n) == <<"Extra">> \o TypeString(t) \o <<ToString(n), "instructions">>

\* variant: the test on the two counts is inverted
RECURSIVE FindMatchesInverted(_, _, _, _)
FindMatchesInverted(res, keys, tcpTypes, protoTypes) ==
    IF keys = <<>> THEN res
    ELSE LET instType == Head(keys)
             tcpCount == tcpTypes[instType]
             next ==
               IF instType \in DOMAIN protoTypes
               THEN IF tcpCount # protoTypes[instType]
                    THEN [res EXCEPT !.Matches =
                            Append(@, MatchEntry(instType, tcpCount))]
                    ELSE [res EXCEPT !.Differences =
                            Append(@, DifferenceEntry(instType, tcpCount,
                                                      protoTypes[instType]))]
               ELSE [res EXCEPT !.MissingInPrototype =
                            Append(@, MissingEntry(instType, tcpCount))]
         IN FindMatchesInverted(next, Tail(keys), tcpTypes, protoTypes)

\* the first loop of compareSemantics, over the keys of tcpTypes
RECURSIVE FindMatches(_, _, _, _)
FindMatches(res, keys, tcpTypes, protoTypes) ==
    IF keys = <<>> THEN res
    ELSE LET instType == Head(keys)
             tcpCount == tcpTypes[instType]
             next ==
               IF instType \in DOMAIN protoTypes
               THEN IF tcpCount = protoTypes[instType]
                    THEN [res EXCEPT !.Matches =
                            Append(@, MatchEntry(instType, tcpCount))]
                    ELSE [res EXCEPT !.Differences =
                            Append(@, DifferenceEntry(instType, tcpCount,
                                                      protoTypes[instType]))]
               ELSE [res EXCEPT !.MissingInPrototype =
                            Append(@, MissingEntry(instType, tcpCount))]
         IN FindMatches(next, Tail(keys), tcpTypes, protoTypes)

\* variant: the second loop records nothing
FindExtraNothing(res, keys, tcpTypes, protoTypes) == res

\* the second loop of compareSemantics, over the keys of protoTypes
RECURSIVE FindExtra(_, _, _, _)
FindExtra(res, keys, tcpTypes, protoTypes) ==
    IF keys = <<>> THEN res
    ELSE LET instType == Head(keys)
             next ==
               IF instType \notin DOMAIN tcpTypes
               THEN [res EXCEPT !.ExtraInPrototype =
                            Append(@, ExtraEntry(instType, protoTypes[instType]))]
               ELSE res
         IN FindExtra(next, Tail(keys), tcpTypes, protoTypes)

\* variant: fragment and address handling are flagged on whichever side has them
analyzeStructuralDifferencesEitherSide(res) ==
    LET tcpCount == Len(res.TcpdumpBPF)
        protoCount == Len(res.PrototypeBPF)
        diff == protoCount - tcpCount
        r1 == IF tcpCount = protoCount
              THEN [res EXCEPT !.Matches = Append(@, <<"Same", "instruction", "count">>)]
              ELSE IF diff > 0
                   THEN [res EXCEPT !.StructuralDiffs =
                           Append(@, <<"Prototype", "has", ToString(diff), "more">>)]
                   ELSE [res EXCEPT !.StructuralDiffs =
                           Append(@, <<"Prototype", "has", ToString(-diff), "fewer">>)]
        tcpHasFragment == hasInstructionType(res.TcpdumpSemantic, CheckFragment)
        protoHasFragment == hasInstructionType(res.PrototypeSemantic, CheckFragment)
        r2 == IF protoHasFragment # tcpHasFragment
              THEN [r1 EXCEPT !.StructuralDiffs =
                      Append(@, <<"Prototype", "includes", "fragment", "handling">>)]
              ELSE r1
        tcpHasIPFilter == hasInstructionType(res.TcpdumpSemantic, CheckSourceIP)
                            \/ hasInstructionType(res.TcpdumpSemantic, CheckDestIP)
        protoHasIPFilter == hasInstructionType(res.PrototypeSemantic, CheckSourceIP)
                            \/ hasInstructionType(res.PrototypeSemantic, CheckDestIP)
    IN IF protoHasIPFilter # tcpHasIPFilter
       THEN [r2 EXCEPT !.StructuralDiffs =
               Append(@, <<"Prototype", "implements", "IP", "address", "filtering">>)]
       ELSE r2

\* analyzeStructuralDifferences
analyzeStructuralDifferences(res) ==
    LET tcpCount == Len(res.TcpdumpBPF)
        protoCount == Len(res.PrototypeBPF)
        diff == protoCount - tcpCount
        r1 == IF tcpCount = protoCount
              THEN [res EXCEPT !.Matches = Append(@, <<"Same", "instruction", "count">>)]
              ELSE IF diff > 0
                   THEN [res EXCEPT !.StructuralDiffs =
                           Append(@, <<"Prototype", "has", ToString(diff), "more">>)]
                   ELSE [res EXCEPT !.StructuralDiffs =
                           Append(@, <<"Prototype", "has", ToString(-diff), "fewer">>)]
        tcpHasFragment == hasInstructionType(res.TcpdumpSemantic, CheckFragment)
        protoHasFragment == hasInstructionType(res.PrototypeSemantic, CheckFragment)
        r2 == IF protoHasFragment /\ ~tcpHasFragment
              THEN [r1 EXCEPT !.StructuralDiffs =
                      Append(@, <<"Prototype", "includes", "fragment", "handling">>)]
              ELSE r1
        tcpHasIPFilter == hasInstructionType(res.TcpdumpSemantic, CheckSourceIP)
                            \/ hasInstructionType(res.TcpdumpSemantic, CheckDestIP)
        protoHasIPFilter == hasInstructionType(res.PrototypeSemantic, CheckSourceIP)
                            \/ hasInstructionType(res.PrototypeSemantic, CheckDestIP)
    IN IF protoHasIPFilter /\ ~tcpHasIPFilter
       THEN [r2 EXCEPT !.StructuralDiffs =
               Append(@, <<"Prototype", "implements", "IP", "address", "filtering">>)]
       ELSE r2

\* variant: the structural pass is left out
compareSemanticsWithoutStructure(res, rotA, rotB) ==
    LET tcpTypes == TypeCounts(res.TcpdumpSemantic)
        protoTypes == TypeCounts(res.PrototypeSemantic)
        r1 == FindMatches(res, RangeOrder(res.TcpdumpSemantic, rotA),
                          tcpTypes, protoTypes)
    IN FindExtra(r1, RangeOrder(res.PrototypeSemantic, rotB), tcpTypes, protoTypes)

\* compareSemantics; rotA and rotB are the starts of the two map iterations
compareSemantics(res, rotA, rotB) ==
    LET tcpTypes == TypeCounts(res.TcpdumpSemantic)
        protoTypes == TypeCounts(res.PrototypeSemantic)
        r1 == FindMatches(res, RangeOrder(res.TcpdumpSemantic, rotA),
                          tcpTypes, protoTypes)
        r2 == FindExtra(r1, RangeOrder(res.PrototypeSemantic, rotB),
                        tcpTypes, protoTypes)
    IN analyzeStructuralDifferences(r2)

-----------------------------------------------------------------------------
(* compare/compare.go: calculateVerdict and Compare *)

\* strings.Contains(s, substr), on texts held as sequences of words
Contains(s, substr) ==
    \E i \in 0..(Len(s) - Len(substr)) : SubSeq(s, i + 1, i + Len(substr)) = substr

VerdictInconclusive == <<"INCONCLUSIVE: No comparable instructions found">>
VerdictExcellent == <<"EXCELLENT MATCH: Prototype closely matches tcpdump behavior">>
VerdictGood ==
    <<"GOOD MATCH: Prototype implements core functionality with some differences">>
VerdictPartial ==
    <<"PARTIAL MATCH: Prototype covers some functionality but has significant gaps">>
VerdictPoor == <<"POOR MATCH: Prototype differs significantly from tcpdump approach">>

\* the score float64(num) / float64(den), kept as the fraction
Fraction(num, den) == [num |-> num, den |-> den]

\* fraction >= a / b, for den > 0 and b > 0
FractionGE(fr, a, b) == fr.num * b >= a * fr.den

\* variant: the boundaries 0.8, 0.6 and 0.4 fall in the lower class
BaseVerdictStrict(score) ==
    IF ~FractionGE(Fraction(8, 10), score.num, score.den) THEN VerdictExcellent
    ELSE IF ~FractionGE(Fraction(6, 10), score.num, score.den) THEN VerdictGood
    ELSE IF ~FractionGE(Fraction(4, 10), score.num, score.den) THEN VerdictPartial
    ELSE VerdictPoor

\* the verdict chosen from the score
BaseVerdict(score) ==
    IF FractionGE(score, 8, 10) THEN VerdictExcellent
    ELSE IF FractionGE(score, 6, 10) THEN VerdictGood
    ELSE IF FractionGE(score, 4, 10) THEN VerdictPartial
    ELSE VerdictPoor

\* variant: the text looked for is only "Protocol"
CriticalPatternLoose == <<"Protocol">>

\* the text whose presence in a MissingInPrototype entry makes the verdict critical
CriticalPattern == <<"Check", "IP", "Protocol">>

\* variant: the structural entries are counted as differences too
TotalDifferencesWithStructural(res) ==
    Len(res.Differences) + Len(res.MissingInPrototype) + Len(res.ExtraInPrototype)
      + Len(res.StructuralDiffs)

\* the total of the entries counted against the matches
TotalDifferences(res) ==
    Len(res.Differences) + Len(res.MissingInPrototype) + Len(res.ExtraInPrototype)

\* calculateVerdict
calculateVerdict(res) ==
    LET totalMatches == Len(res.Matches)
        totalDifferences == TotalDifferences(res)
    IN IF totalMatches + totalDifferences = 0
       THEN [res EXCEPT !.Score = Fraction(0, 1), !.Verdict = VerdictInconclusive]
       ELSE LET score == Fraction(totalMatches, totalMatches + totalDifferences)
                verdict == BaseVerdict(score)
                critical == \E i \in 1..Len(res.MissingInPrototype) :
                               Contains(res.MissingInPrototype[i], CriticalPattern)
            IN [res EXCEPT !.Score = score,
                           !.Verdict = IF critical
                                       THEN <<"CRITICAL ISSUE: ">> \o verdict
                                              \o <<" (Missing IP validation)">>
                                       ELSE verdict]

\* Compare
CompareResult(tcp, proto, rotA, rotB) ==
    LET r0 == [TcpdumpBPF |-> tcp, PrototypeBPF |-> proto,
               TcpdumpSemantic |-> analyzeTcpdumpSemantics(tcp),
               PrototypeSemantic |-> analyzePrototypeSemantics(proto),
               Matches |-> <<>>, Differences |-> <<>>,
               MissingInPrototype |-> <<>>, ExtraInPrototype |-> <<>>,
               StructuralDiffs |-> <<>>,
               Verdict |-> <<>>, Score |-> Fraction(0, 1)]
    IN calculateVerdict(compareSemantics(r0, rotA, rotB))

-----------------------------------------------------------------------------
(* Texts: a string is the sequence of its characters *)

Digit(d) == <<"0", "1", "2", "3", "4", "5", "6", "7", "8", "9">>[d + 1]

\* fmt "%d" of an int that is not negative
RECURSIVE Decimal(_)
Decimal(n) ==
    IF n < 10 THEN <<Digit(n)>> ELSE Decimal(n \div 10) \o <<Digit(n % 10)>>

\* fmt "%d" of a uint32, by long division of the two halves
RECURSIVE DecimalU32(_)
DecimalU32(k) ==
    LET r == (k[1] % 10) * 65536 + k[2]
        q == U32(k[1] \div 10, r \div 10)
    IN IF q = U32(0, 0) THEN <<Digit(r % 10)>>
       ELSE DecimalU32(q) \o <<Digit(r % 10)>>

\* the text of an address a.b.c.d
IPText(ip) ==
    Decimal(ip[1]) \o <<".">> \o Decimal(ip[2]) \o <<".">>
       \o Decimal(ip[3]) \o <<".">> \o Decimal(ip[4])

\* the characters of the protocol texts of the model
ProtocolText(p) ==
    CASE p = "tcp"  -> <<"t", "c", "p">>
      [] p = "udp"  -> <<"u", "d", "p">>
      [] p = "icmp" -> <<"i", "c", "m", "p">>
      [] p = "TCP"  -> <<"T", "C", "P">>
      [] p = "sctp" -> <<"s", "c", "t", "p">>
      [] OTHER      -> <<>>

\* strings.Join(parts, sep)
RECURSIVE Join(_, _)
Join(parts, sep) ==
    IF parts = <<>> THEN <<>>
    ELSE IF Len(parts) = 1 THEN parts[1]
    ELSE parts[1] \o sep \o Join(Tail(parts), sep)

-----------------------------------------------------------------------------
(* filter/types.go: ToTcpdumpFilter *)

ToTcpdumpFilter(flt) ==
    LET p1 == IF flt.Protocol # "" THEN <<ProtocolText(flt.Protocol)>> ELSE <<>>
        p2 == IF flt.SrcIP # NoIP
              THEN <<<<"s", "r", "c", " ">> \o IPText(flt.SrcIP)>> ELSE <<>>
        p3 == IF flt.DstIP # NoIP
              THEN <<<<"d", "s", "t", " ">> \o IPText(flt.DstIP)>> ELSE <<>>
        p4 == IF flt.SrcPort # 0
              THEN <<<<"s", "r", "c", " ", "p", "o", "r", "t", " ">>
                        \o Decimal(flt.SrcPort)>> ELSE <<>>
        p5 == IF flt.DstPort # 0
              THEN <<<<"d", "s", "t", " ", "p", "o", "r", "t", " ">>
                        \o Decimal(flt.DstPort)>> ELSE <<>>
    IN Join(p1 \o p2 \o p3 \o p4 \o p5, <<" ", "a", "n", "d", " ">>)

-----------------------------------------------------------------------------
(* tcpdump/tcpdump.go: generateMockBPF *)

\* "%d %d %d %d\n" of one instruction
InstructionLine(inst) ==
    Decimal(inst.Code) \o <<" ">> \o Decimal(inst.JT) \o <<" ">>
       \o Decimal(inst.JF) \o <<" ">> \o DecimalU32(inst.K) \o <<"\n">>

\* the loop that appends one line per instruction to mockOutput
RECURSIVE InstructionLines(_)
InstructionLines(instructions) ==
    IF instructions = <<>> THEN <<>>
    ELSE InstructionLine(Head(instructions)) \o InstructionLines(Tail(instructions))

\* variant: the port block is added for every filter expression
MockPortBlockAlways(filterExpr) == TRUE

\* the test that guards the port block of the mock
MockPortBlock(filterExpr) == Contains(filterExpr, <<"p", "o", "r", "t">>)

generateMockBPF(filterExpr) ==
    LET base == << BPFInstruction(OpLdh, 0, 0, KEtherType),
                   BPFInstruction(OpJeq, 0, 8, KIPv4) >>
        proto == IF Contains(filterExpr, <<"t", "c", "p">>)
                 THEN << BPFInstruction(OpLdb, 0, 0, KProtoOff),
                         BPFInstruction(OpJeq, 0, 6, U32(0, 6)) >>
                 ELSE IF Contains(filterExpr, <<"u", "d", "p">>)
                      THEN << BPFInstruction(OpLdb, 0, 0, KProtoOff),
                              BPFInstruction(OpJeq, 0, 6, U32(0, 17)) >>
                      ELSE <<>>
        port == IF MockPortBlock(filterExpr)
                THEN << BPFInstruction(OpLdh, 0, 0, KFragOff),
                        BPFInstruction(OpJset, 4, 0, KFragMask),
                        BPFInstruction(OpLdxb, 0, 0, KHdrLen),
                        BPFInstruction(OpLdhX, 0, 0, KSrcPortOff) >>
                     \o (IF Contains(filterExpr, <<"8", "0">>)
                         THEN <<BPFInstruction(OpJeq, 2, 0, U32(0, 80))>>
                         ELSE <<>>)
                ELSE <<>>
        instructions == base \o proto \o port
                          \o << BPFInstruction(OpRet, 0, 0, KAccept),
                                BPFInstruction(OpRet, 0, 0, KReject) >>
    IN [Instructions |-> instructions,
        RawOutput |-> Decimal(Len(instructions)) \o <<"\n">>
                         \o InstructionLines(instructions),
        InstructionCount |-> Len(instructions),
        IsMocked |-> TRUE]

-----------------------------------------------------------------------------
(* tcpdump/tcpdump.go: parseTcpdumpOutput *)

Digits == {"0", "1", "2", "3", "4", "5", "6", "7", "8", "9"}

\* the value of a digit character
DigitValue(c) == CHOOSE d \in 0..9 : Digit(d) = c

\* the white space of the model's texts
IsSpace(c) == c \in {" ", "\t", "\n", "\r"}

\* strings.TrimSpace
RECURSIVE TrimLeft(_)
TrimLeft(s) == IF s # <<>> /\ IsSpace(Head(s)) THEN TrimLeft(Tail(s)) ELSE s

RECURSIVE TrimRight(_)
TrimRight(s) ==
    IF s # <<>> /\ IsSpace(s[Len(s)]) THEN TrimRight(SubSeq(s, 1, Len(s) - 1)) ELSE s

TrimSpace(s) == TrimRight(TrimLeft(s))

\* strings.Split(s, "\n"): a text without a newline is one line, also when empty
RECURSIVE Split(_)
Split(s) ==
    IF \E i \in 1..Len(s) : s[i] = "\n"
    THEN LET i == CHOOSE p \in 1..Len(s) :
                     s[p] = "\n" /\ \A q \in 1..(p - 1) : s[q] # "\n"
         IN <<SubSeq(s, 1, i - 1)>> \o Split(SubSeq(s, i + 1, Len(s)))
    ELSE <<s>>

\* strings.Fields: the maximal runs of characters that are not white space
RECURSIVE Fields(_)
Fields(s) ==
    LET t == TrimLeft(s)
    IN IF t = <<>> THEN <<>>
       ELSE IF \E i \in 1..Len(t) : IsSpace(t[i])
            THEN LET i == CHOOSE p \in 1..Len(t) :
                             IsSpace(t[p]) /\ \A q \in 1..(p - 1) : ~IsSpace(t[q])
                 IN <<SubSeq(t, 1, i - 1)>> \o Fields(SubSeq(t, i + 1, Len(t)))
            ELSE <<t>>

\* the value of a digit text, most significant digit first
RECURSIVE DigitsValue(_, _)
DigitsValue(s, acc) ==
    IF s = <<>> THEN acc ELSE DigitsValue(Tail(s), acc * 10 + DigitValue(Head(s)))

\* strconv.Atoi: an optional sign, then one or more digits
Atoi(s) ==
    LET signed == s # <<>> /\ Head(s) \in {"+", "-"}
        body == IF signed THEN Tail(s) ELSE s
    IN IF body # <<>> /\ \A i \in 1..Len(body) : body[i] \in Digits
       THEN [ok |-> TRUE,
             val |-> IF signed /\ Head(s) = "-" THEN 0 - DigitsValue(body, 0)
                     ELSE DigitsValue(body, 0)]
       ELSE [ok |-> FALSE, val |-> 0]

\* digit by digit: the value so far times ten plus the digit, or out of range
RECURSIVE Accumulate(_, _, _)
Accumulate(s, acc, max) ==
    IF s = <<>> THEN [ok |-> TRUE, val |-> acc]
    ELSE LET t == acc[2] * 10 + DigitValue(Head(s))
             h == acc[1] * 10 + (t \div 65536)
             next == U32(h, t % 65536)
         IN IF h >= 65536 \/ ~GE32(max, next)
            THEN [ok |-> FALSE, val |-> U32(0, 0)]
            ELSE Accumulate(Tail(s), next, max)

\* variant: a leading plus sign is read as in Atoi
ParseUintSigned(s, max) ==
    LET body == IF s # <<>> /\ Head(s) = "+" THEN Tail(s) ELSE s
    IN IF body # <<>> /\ \A i \in 1..Len(body) : body[i] \in Digits
       THEN Accumulate(body, U32(0, 0), max)
       ELSE [ok |-> FALSE, val |-> U32(0, 0)]

\* strconv.ParseUint(s, 10, bitSize), max being 2^bitSize - 1: one or more
\* digits, no sign, value at most max
ParseUint(s, max) ==
    IF s # <<>> /\ \A i \in 1..Len(s) : s[i] \in Digits
    THEN Accumulate(s, U32(0, 0), max)
    ELSE [ok |-> FALSE, val |-> U32(0, 0)]

MaxUint16 == U32(0, 65535)
MaxUint8 == U32(0, 255)
MaxUint32 == U32(65535, 65535)

\* the loop over the instruction lines
RECURSIVE ParseLines(_, _, _, _)
ParseLines(lines, i, numInstructions, instructions) ==
    IF i > numInstructions THEN [instructions |-> instructions, err |-> "nil"]
    ELSE LET parts == Fields(TrimSpace(lines[i + 1]))
         IN IF Len(parts) # 4
            THEN [instructions |-> <<>>, err |-> "invalid instruction format"]
            ELSE LET code == ParseUint(parts[1], MaxUint16)
                     jt == ParseUint(parts[2], MaxUint8)
                     jf == ParseUint(parts[3], MaxUint8)
                     k == ParseUint(parts[4], MaxUint32)
                 IN IF ~code.ok THEN [instructions |-> <<>>, err |-> "invalid code"]
                    ELSE IF ~jt.ok THEN [instructions |-> <<>>, err |-> "invalid jt"]
                    ELSE IF ~jf.ok THEN [instructions |-> <<>>, err |-> "invalid jf"]
                    ELSE IF ~k.ok THEN [instructions |-> <<>>, err |-> "invalid k"]
                    ELSE ParseLines(lines, i + 1, numInstructions,
                            Append(instructions,
                                   BPFInstruction(code.val[2], jt.val[2], jf.val[2], k.val)))

parseTcpdumpOutput(output) ==
    LET lines == Split(TrimSpace(output))
        numInstructions == Atoi(TrimSpace(lines[1]))
    IN IF Len(lines) = 0
       THEN [instructions |-> <<>>, err |-> "empty tcpdump output"]
       ELSE IF ~numInstructions.ok
            THEN [instructions |-> <<>>, err |-> "invalid instruction count"]
            ELSE IF Len(lines) # numInstructions.val + 1
                 THEN [instructions |-> <<>>, err |-> "expected instructions"]
                 ELSE ParseLines(lines, 1, numInstructions.val, <<>>)

-----------------------------------------------------------------------------
(* The programs of the outside world *)

\* an oracle program of five instructions: ethertype check, protocol check,
\* destination-port check, accept, reject
FiveTagOracle ==
    << BPFInstruction(OpJeq, 0, 3, KIPv4),
       BPFInstruction(OpJeq, 0, 2, U32(0, 6)),
       BPFInstruction(OpJeq, 0, 1, U32(0, 80)),
       BPFInstruction(OpRet, 0, 0, KAccept),
       BPFInstruction(OpRet, 0, 0, KReject) >>

\* what tcpdump -ddd prints for "ip"
TcpdumpIP ==
    << BPFInstruction(OpLdh, 0, 0, KEtherType),
       BPFInstruction(OpJeq, 0, 1, KIPv4),
       BPFInstruction(OpRet, 0, 0, KAccept),
       BPFInstruction(OpRet, 0, 0, KReject) >>

\* the programs the tcpdump side may hand to main
OraclePrograms == {FiveTagOracle, TcpdumpIP}

\* the instructions from which the free-standing comparison draws its programs
CmpAlphabet ==
    { BPFInstruction(OpLdh, 0, 0, KEtherType),
      BPFInstruction(OpJeq, 0, 0, KIPv4),
      BPFInstruction(OpJset, 0, 0, KFragMask),
      BPFInstruction(OpJeq, 0, 0, U32(49320, 257)),
      BPFInstruction(OpRet, 0, 0, KAccept),
      BPFInstruction(0, 0, 0, KReject) }

CmpPrograms == UNION {[1..n -> CmpAlphabet] : n \in 0..MaxProgLen}

\* the filters handed to main
FilterProtocols == {"", "tcp", "udp", "icmp", "TCP", "sctp"}
FilterIPs == {NoIP, <<192, 168, 1, 1>>, <<10, 0, 0, 1>>, <<127, 0, 0, 1>>,
              <<8, 8, 8, 8>>, <<256, 0, 0, 1>>}
FilterPorts == {-1, 0, 1, 80, 2048, 65535, 65536}

Filters == [Protocol : FilterProtocols, SrcIP : FilterIPs, DstIP : FilterIPs,
            SrcPort : FilterPorts, DstPort : FilterPorts]

NoResult == [TcpdumpBPF |-> <<>>, PrototypeBPF |-> <<>>,
             TcpdumpSemantic |-> <<>>, PrototypeSemantic |-> <<>>,
             Matches |-> <<>>, Differences |-> <<>>,
             MissingInPrototype |-> <<>>, ExtraInPrototype |-> <<>>,
             StructuralDiffs |-> <<>>, Verdict |-> <<>>, Score |-> Fraction(0, 1)]

\* no direct call has been made
NoCall == [op |-> "none"]

NoCode == [Instructions |-> <<>>, InstructionCount |-> 0,
           Optimizations |-> <<>>, err |-> "none"]

-----------------------------------------------------------------------------
(* main.go *)

\* tcpdump.GenerateBPF: the reference program
TcpdumpGenerateBPF ==
    /\ pc = "tcpdump"
    /\ \/ \E prog \in OraclePrograms :
             /\ tcpBPF' = prog
             /\ call' = [op |-> "tcpdump.GenerateBPF", IsMocked |-> FALSE]
       \/ LET bpf == generateMockBPF(ToTcpdumpFilter(f))
          IN /\ tcpBPF' = bpf.Instructions
             /\ call' = [op |-> "tcpdump.GenerateBPF", IsMocked |-> bpf.IsMocked]
    /\ pc' = "stage1"
    /\ UNCHANGED <<f, builder, genLocals, bpfCode, protoBPF, result, adds, built>>

\* compare.Compare(tcpdumpBPF, prototypeBPF)
Compare ==
    /\ pc = "compare"
    /\ \E rotA, rotB \in 0..MaxRot :
          result' = CompareResult(tcpBPF, protoBPF, rotA, rotB)
    /\ pc' = "done"
    /\ UNCHANGED <<f, builder, genLocals, bpfCode, tcpBPF, protoBPF, apiVars>>

Init ==
    /\ f \in Filters
    /\ pc = "validate"
    /\ builder = NewBPFBuilder
    /\ ipCheckIdx = -1
    /\ protocolCheckIdx = -1
    /\ srcIPCheckIdx = -1
    /\ dstIPCheckIdx = -1
    /\ fragCheckIdx = -1
    /\ portCheckIndices = <<>>
    /\ acceptIdx = -1
    /\ rejectIdx = -1
    /\ bpfCode = NoCode
    /\ tcpBPF = <<>>
    /\ protoBPF = <<>>
    /\ result = NoResult
    /\ call = NoCall
    /\ adds = 0
    /\ built = -1

Next ==
    \/ Validate
    \/ TcpdumpGenerateBPF
    \/ EthertypeGate
    \/ ProtocolGate
    \/ AddressGate
    \/ PortGate
    \/ TerminalPair
    \/ Backpatch
    \/ RecordOptimizations
    \/ GenerateBPF
    \/ Compare

Spec == Init /\ [][Next]_vars

\* Compare on its own: any two programs
CmpInit ==
    /\ f = [Protocol |-> "", SrcIP |-> NoIP, DstIP |-> NoIP, SrcPort |-> 0, DstPort |-> 0]
    /\ pc = "compare"
    /\ builder = NewBPFBuilder
    /\ ipCheckIdx = -1
    /\ protocolCheckIdx = -1
    /\ srcIPCheckIdx = -1
    /\ dstIPCheckIdx = -1
    /\ fragCheckIdx = -1
    /\ portCheckIndices = <<>>
    /\ acceptIdx = -1
    /\ rejectIdx = -1
    /\ bpfCode = NoCode
    /\ tcpBPF \in CmpPrograms
    /\ protoBPF \in CmpPrograms
    /\ result = NoResult
    /\ call = NoCall
    /\ adds = 0
    /\ built = -1

CmpNext == Compare

CmpSpec == CmpInit /\ [][CmpNext]_vars

-----------------------------------------------------------------------------
(* Compare on programs of up to eight instructions *)

\* the instructions the longer programs are cut from; the accept instruction
\* occurs twice so that one tag can occur with two different counts
WideBase ==
    << BPFInstruction(OpLdh, 0, 0, KEtherType),
       BPFInstruction(OpJeq, 0, 0, KIPv4),
       BPFInstruction(OpLdb, 0, 0, KProtoOff),
       BPFInstruction(OpJeq, 0, 0, U32(0, 6)),
       BPFInstruction(OpJset, 0, 0, KFragMask),
       BPFInstruction(OpJeq, 0, 0, U32(49320, 257)),
       BPFInstruction(OpRet, 0, 0, KAccept),
       BPFInstruction(OpRet, 0, 0, KAccept) >>

\* the instructions of base at the positions in keep, in their order
RECURSIVE SubProgram(_, _, _)
SubProgram(base, keep, i) ==
    IF i > Len(base) THEN <<>>
    ELSE (IF i \in keep THEN <<base[i]>> ELSE <<>>) \o SubProgram(base, keep, i + 1)

WidePrograms == {SubProgram(WideBase, keep, 1) : keep \in SUBSET (1..Len(WideBase))}

WideInit ==
    /\ f = [Protocol |-> "", SrcIP |-> NoIP, DstIP |-> NoIP, SrcPort |-> 0, DstPort |-> 0]
    /\ pc = "compare"
    /\ builder = NewBPFBuilder
    /\ ipCheckIdx = -1
    /\ protocolCheckIdx = -1
    /\ srcIPCheckIdx = -1
    /\ dstIPCheckIdx = -1
    /\ fragCheckIdx = -1
    /\ portCheckIndices = <<>>
    /\ acceptIdx = -1
    /\ rejectIdx = -1
    /\ bpfCode = NoCode
    /\ tcpBPF \in WidePrograms
    /\ protoBPF \in WidePrograms
    /\ result = NoResult
    /\ call = NoCall
    /\ adds = 0
    /\ built = -1

WideNext == Compare

WideSpec == WideInit /\ [][WideNext]_vars

-----------------------------------------------------------------------------
(* analyzeInstruction on its own: any opcode, immediate, branch fields, index *)

ClassifyCodes == {OpLdh, OpLdb, OpLd, OpLdhX, OpJeq, OpJset, OpLdxb, OpRet, 0, 7, 22}

ClassifyImmediates ==
    {U32(0, n) : n \in {0, 1, 2, 6, 12, 14, 16, 17, 20, 23, 26, 30, 80,
                        2048, 8191, 65535}}
      \cup {U32(1, 0), U32(4, 0), U32(2560, 1), U32(49151, 65535), U32(49152, 0),
            U32(49320, 257), U32(65535, 65535)}

ClassifyBranches == {0, 255}

ClassifyIndices == {0, 7}

ClassifyInit ==
    /\ f = [Protocol |-> "", SrcIP |-> NoIP, DstIP |-> NoIP, SrcPort |-> 0, DstPort |-> 0]
    /\ pc = "classify"
    /\ builder = NewBPFBuilder
    /\ ipCheckIdx = -1
    /\ protocolCheckIdx = -1
    /\ srcIPCheckIdx = -1
    /\ dstIPCheckIdx = -1
    /\ fragCheckIdx = -1
    /\ portCheckIndices = <<>>
    /\ acceptIdx = -1
    /\ rejectIdx = -1
    /\ bpfCode = NoCode
    /\ tcpBPF = <<>>
    /\ protoBPF = <<>>
    /\ result = NoResult
    /\ call \in [op : {"input"}, code : ClassifyCodes, jt : ClassifyBranches,
                 jf : ClassifyBranches, k : ClassifyImmediates,
                 index : ClassifyIndices]
    /\ adds = 0
    /\ built = -1

\* analyzeInstruction(code, jt, jf, k, index)
AnalyzeInstruction ==
    /\ pc = "classify"
    /\ call.op = "input"
    /\ call' = [op |-> "analyzeInstruction", code |-> call.code, jt |-> call.jt,
                jf |-> call.jf, k |-> call.k, index |-> call.index,
                ret |-> analyzeInstruction(call.code, call.jt, call.jf, call.k,
                                           call.index)]
    /\ UNCHANGED <<f, pc, builder, genLocals, bpfCode, tcpBPF, protoBPF, result,
                   adds, built>>

ClassifyNext == AnalyzeInstruction

ClassifySpec == ClassifyInit /\ [][ClassifyNext]_vars

-----------------------------------------------------------------------------
(* The BPFBuilder driven directly: its methods in any order *)

\* the arguments tried
BuilderInstructions == {<<OpJeq, KIPv4>>, <<OpRet, KReject>>}
BuilderAddJT == {0, 1}
BuilderPatchJT == {2}
BuilderPatchJF == {3}

\* the program seen through the slice that Build returned when the list had n
\* elements: Build hands out the builder's own slice of instruction pointers,
\* so its elements are the builder's instructions; its length stays n
ReturnedProgram(b, n) == SubSeq(b.instructions, 1, n)

BuilderInit ==
    /\ f = [Protocol |-> "", SrcIP |-> NoIP, DstIP |-> NoIP, SrcPort |-> 0, DstPort |-> 0]
    /\ pc = "builder"
    /\ builder = NewBPFBuilder
    /\ ipCheckIdx = -1
    /\ protocolCheckIdx = -1
    /\ srcIPCheckIdx = -1
    /\ dstIPCheckIdx = -1
    /\ fragCheckIdx = -1
    /\ portCheckIndices = <<>>
    /\ acceptIdx = -1
    /\ rejectIdx = -1
    /\ bpfCode = NoCode
    /\ tcpBPF = <<>>
    /\ protoBPF = <<>>
    /\ result = NoResult
    /\ call = NoCall
    /\ adds = 0
    /\ built = -1

\* b.AddInstruction(code, jt, 0, k)
CallAddInstruction ==
    /\ pc = "builder" /\ ~builder.panicked
    /\ Len(builder.instructions) < MaxBuilderLen
    /\ \E ck \in BuilderInstructions, jt \in BuilderAddJT :
          LET a == AddInstruction(builder, ck[1], jt, 0, ck[2])
          IN /\ builder' = a.builder
             /\ call' = [op |-> "AddInstruction", code |-> ck[1], jt |-> jt, jf |-> 0,
                         k |-> ck[2], n |-> adds, ret |-> a.ret]
    /\ adds' = adds + 1
    /\ UNCHANGED <<f, pc, genLocals, bpfCode, tcpBPF, protoBPF, result, built>>

\* b.UpdateJumpTargets(position, jt, jf)
CallUpdateJumpTargets ==
    /\ pc = "builder" /\ ~builder.panicked
    /\ \E position \in -1..MaxBuilderLen, jt \in BuilderPatchJT, jf \in BuilderPatchJF :
          /\ builder' = UpdateJumpTargets(builder, position, jt, jf)
          /\ call' = [op |-> "UpdateJumpTargets", position |-> position,
                      jt |-> jt, jf |-> jf]
    /\ UNCHANGED <<f, pc, genLocals, bpfCode, tcpBPF, protoBPF, result, adds, built>>

\* b.AddOptimization(description)
CallAddOptimization ==
    /\ pc = "builder" /\ ~builder.panicked
    /\ Len(builder.optimizations) < MaxNotes
    /\ builder' = AddOptimization(builder, "note")
    /\ call' = [op |-> "AddOptimization", description |-> "note"]
    /\ UNCHANGED <<f, pc, genLocals, bpfCode, tcpBPF, protoBPF, result, adds, built>>

\* b.Build()
CallBuild ==
    /\ pc = "builder" /\ ~builder.panicked
    /\ built = -1
    /\ built' = Len(Build(builder))
    /\ call' = [op |-> "Build", ret |-> Build(builder)]
    /\ UNCHANGED <<f, pc, builder, genLocals, bpfCode, tcpBPF, protoBPF, result, adds>>

BuilderNext ==
    \/ CallAddInstruction
    \/ CallUpdateJumpTargets
    \/ CallAddOptimization
    \/ CallBuild

BuilderSpec == BuilderInit /\ [][BuilderNext]_vars

-----------------------------------------------------------------------------
(* Compare on programs that differ in branch wiring and instruction order *)

\* the ethertype check occurs with two wirings, the fragment check with two
WireAlphabet ==
    { BPFInstruction(OpLdh, 0, 0, KEtherType),
      BPFInstruction(OpJeq, 0, 0, KIPv4),
      BPFInstruction(OpJeq, 1, 2, KIPv4),
      BPFInstruction(OpJset, 0, 0, KFragMask),
      BPFInstruction(OpJset, 3, 0, KFragMask) }

WirePrograms == UNION {[1..n -> WireAlphabet] : n \in 0..MaxProgLen}

WireInit ==
    /\ f = [Protocol |-> "", SrcIP |-> NoIP, DstIP |-> NoIP, SrcPort |-> 0, DstPort |-> 0]
    /\ pc = "compare"
    /\ builder = NewBPFBuilder
    /\ ipCheckIdx = -1
    /\ protocolCheckIdx = -1
    /\ srcIPCheckIdx = -1
    /\ dstIPCheckIdx = -1
    /\ fragCheckIdx = -1
    /\ portCheckIndices = <<>>
    /\ acceptIdx = -1
    /\ rejectIdx = -1
    /\ bpfCode = NoCode
    /\ tcpBPF \in WirePrograms
    /\ protoBPF \in WirePrograms
    /\ result = NoResult
    /\ call = NoCall
    /\ adds = 0
    /\ built = -1

WireNext == Compare

WireSpec == WireInit /\ [][WireNext]_vars

-----------------------------------------------------------------------------
(* parseTcpdumpOutput on dumps of the -ddd format and on damaged ones *)

\* the texts tried as the count line
CountTexts ==
    {Decimal(n) : n \in 0..(MaxDumpLines + 1)}
       \cup {<<>>, <<"x">>, <<"+", "1">>, <<"-", "0">>, <<"-", "1">>, <<"0", "1">>}

\* the instruction lines tried, each as the sequence of its fields
LineTexts ==
    { <<<<"6">>, <<"0">>, <<"0">>, <<"0">>>>,
      <<<<"2", "1">>, <<"0">>, <<"8">>, <<"2", "0", "4", "8">>>>,
      <<<<"6", "5", "5", "3", "5">>, <<"2", "5", "5">>, <<"2", "5", "5">>,
        <<"4", "2", "9", "4", "9", "6", "7", "2", "9", "5">>>>,
      <<<<"6", "5", "5", "3", "6">>, <<"0">>, <<"0">>, <<"0">>>>,
      <<<<"6">>, <<"2", "5", "6">>, <<"0">>, <<"0">>>>,
      <<<<"6">>, <<"0">>, <<"2", "5", "6">>, <<"0">>>>,
      <<<<"6">>, <<"0">>, <<"0">>,
        <<"4", "2", "9", "4", "9", "6", "7", "2", "9", "6">>>>,
      <<<<"6">>, <<"0">>, <<"0">>>>,
      <<<<"6">>, <<"0">>, <<"0">>, <<"0">>, <<"0">>>>,
      <<<<"6">>, <<"x">>, <<"0">>, <<"0">>>>,
      <<<<"+", "6">>, <<"0">>, <<"0">>, <<"0">>>>,
      <<<<"0", "6">>, <<"0">>, <<"0">>, <<"0", "0">>>> }

Layouts == {"plain", "terminated", "padded"}

\* the text of a dump: the count line, then the lines; "terminated" ends
\* every line with a newline, "padded" also separates fields by a tab and a
\* space and surrounds the text and its lines by white space
RenderDump(count, lines, layout) ==
    LET sep == IF layout = "padded" THEN <<"\t", " ">> ELSE <<" ">>
        pad == IF layout = "padded" THEN <<" ">> ELSE <<>>
        text == [i \in 1..Len(lines) |-> pad \o Join(lines[i], sep) \o pad]
        body == Join(<<count \o pad>> \o text, <<"\n">>)
    IN CASE layout = "plain" -> body
         [] layout = "terminated" -> body \o <<"\n">>
         [] OTHER -> <<"\n", " ">> \o body \o <<"\r", "\n", "\n">>

\* the fields of the lines that "%d %d %d %d\n" gives for a program
LinesOfProgram(instructions) ==
    [i \in 1..Len(instructions) |->
        << Decimal(instructions[i].Code), Decimal(instructions[i].JT),
           Decimal(instructions[i].JF), DecimalU32(instructions[i].K) >>]

\* the filters whose mock dump is parsed
MockFilters ==
    {flt \in [Protocol : {"", "tcp", "udp", "icmp"}, SrcIP : {NoIP, <<10, 0, 0, 1>>},
              DstIP : {NoIP}, SrcPort : {0}, DstPort : {0, 80, 2048}] : ValidateOk(flt)}

ParseInit ==
    /\ \/ /\ pc = "parse"
          /\ f = [Protocol |-> "", SrcIP |-> NoIP, DstIP |-> NoIP,
                  SrcPort |-> 0, DstPort |-> 0]
          /\ \E count \in CountTexts, n \in 0..MaxDumpLines, layout \in Layouts :
                \E lines \in [1..n -> LineTexts] :
                   call = [op |-> "input", count |-> count, lines |-> lines,
                           layout |-> layout,
                           output |-> RenderDump(count, lines, layout)]
       \/ /\ pc = "mock"
          /\ f \in MockFilters
          /\ call = NoCall
    /\ builder = NewBPFBuilder
    /\ ipCheckIdx = -1
    /\ protocolCheckIdx = -1
    /\ srcIPCheckIdx = -1
    /\ dstIPCheckIdx = -1
    /\ fragCheckIdx = -1
    /\ portCheckIndices = <<>>
    /\ acceptIdx = -1
    /\ rejectIdx = -1
    /\ bpfCode = NoCode
    /\ tcpBPF = <<>>
    /\ protoBPF = <<>>
    /\ result = NoResult
    /\ adds = 0
    /\ built = -1

\* generateMockBPF(f.ToTcpdumpFilter()): its RawOutput becomes the dump
MockDump ==
    /\ pc = "mock"
    /\ LET bpf == generateMockBPF(ToTcpdumpFilter(f))
       IN /\ tcpBPF' = bpf.Instructions
          /\ call' = [op |-> "input", count |-> Decimal(bpf.InstructionCount),
                      lines |-> LinesOfProgram(bpf.Instructions),
                      layout |-> "mock", output |-> bpf.RawOutput]
    /\ pc' = "parse"
    /\ UNCHANGED <<f, builder, genLocals, bpfCode, protoBPF, result, adds, built>>

\* parseTcpdumpOutput(output)
ParseTcpdumpOutput ==
    /\ pc = "parse"
    /\ LET ret == parseTcpdumpOutput(call.output)
       IN call' = [op |-> "parseTcpdumpOutput", count |-> call.count,
                   lines |-> call.lines, layout |-> call.layout,
                   output |-> call.output,
                   instructions |-> ret.instructions, err |-> ret.err]
    /\ pc' = "parsed"
    /\ UNCHANGED <<f, builder, genLocals, bpfCode, tcpBPF, protoBPF, result, adds, built>>

ParseNext ==
    \/ MockDump
    \/ ParseTcpdumpOutput

ParseSpec == ParseInit /\ [][ParseNext]_vars

-----------------------------------------------------------------------------
(* Vocabulary of the properties *)

\* GenerateBPF has returned
Generated == pc \in {"compare", "done"}

\* the instruction of the generated program at the zero-based position p
GenInstr(p) == bpfCode.Instructions[p + 1]

\* the recorded positions of the equality checks of stages 1-4
SeqRange(s) == {s[i] : i \in 1..Len(s)}
EqualityCheckPositions ==
    {ipCheckIdx}
      \cup (IF protocolCheckIdx >= 0 THEN {protocolCheckIdx} ELSE {})
      \cup (IF srcIPCheckIdx >= 0 THEN {srcIPCheckIdx} ELSE {})
      \cup (IF dstIPCheckIdx >= 0 THEN {dstIPCheckIdx} ELSE {})
      \cup SeqRange(portCheckIndices)

\* the tag the classifier gives an instruction
TagOf(inst) == analyzeInstruction(inst.Code, inst.JT, inst.JF, inst.K, 0).Type

\* the tags of a program
TagsOf(prog) == {TagOf(prog[i]) : i \in 1..Len(prog)}

\* the number of instructions of a program carrying tag t
TagCount(prog, t) == Cardinality({i \in 1..Len(prog) : TagOf(prog[i]) = t})

\* where control goes from position p when branch offsets are read as
\* "target = own position + offset": outcome[q] tells whether the test at q
\* holds; a return ends the run, any other instruction continues at p + 1
RECURSIVE RunFrom(_, _, _, _)
RunFrom(prog, p, outcome, fuel) ==
    IF fuel = 0 \/ p < 0 \/ p >= Len(prog) THEN "stuck"
    ELSE LET inst == prog[p + 1]
         IN IF inst.Code = OpRet
            THEN (IF inst.K # KReject THEN "accept" ELSE "reject")
            ELSE IF inst.Code \in {OpJeq, OpJset}
                 THEN RunFrom(prog, p + (IF outcome[p] THEN inst.JT ELSE inst.JF),
                              outcome, fuel - 1)
                 ELSE RunFrom(prog, p + 1, outcome, fuel - 1)

\* the filter {protocol = tcp, destPort = 80}
FilterTcpDport80 ==
    [Protocol |-> "tcp", SrcIP |-> NoIP, DstIP |-> NoIP, SrcPort |-> 0, DstPort |-> 80]

-----------------------------------------------------------------------------
(* Properties of the generator *)

\* C1: in the generated program every equality check of stages 1-4 at position
\* p has JT = acceptIdx - p and JF = rejectIdx - p.
C1_BackpatchedOffsets ==
    Generated =>
        \A p \in EqualityCheckPositions :
            /\ GenInstr(p).Code = OpJeq
            /\ GenInstr(p).JT = acceptIdx - p
            /\ GenInstr(p).JF = rejectIdx - p

C1_Witness ==
    /\ pc = "done"
    /\ protocolCheckIdx >= 0 /\ srcIPCheckIdx >= 0 /\ dstIPCheckIdx >= 0
    /\ Len(portCheckIndices) = 2
    /\ GenInstr(ipCheckIdx).JT = 14 /\ GenInstr(ipCheckIdx).JF = 15

\* C2 (as the specification states it): with target = position + offset, a
\* check that succeeds goes on to the next check stage, a check that fails
\* goes to the reject instruction, and the accept instruction is reached only
\* when every emitted equality check succeeded.
C2_ChecksChainToAccept ==
    Generated =>
        /\ \A p \in EqualityCheckPositions :
              /\ p + GenInstr(p).JF = rejectIdx
              /\ \A q \in EqualityCheckPositions :
                    (q > p /\ ~\E m \in EqualityCheckPositions : p < m /\ m < q)
                        => (p < p + GenInstr(p).JT /\ p + GenInstr(p).JT <= q)
        /\ \A outcome \in [0..(Len(bpfCode.Instructions) - 1) -> BOOLEAN] :
              RunFrom(bpfCode.Instructions, 0, outcome,
                      Len(bpfCode.Instructions) + 1) = "accept"
                 => \A p \in EqualityCheckPositions : outcome[p]

\* C3 (as the specification states it): with a port set, the fragment check at
\* position p has p + JT = the position right after the last port check and
\* JF = 0, before and after the final pass.
C3_FragmentTargetAfterPorts ==
    (pc \in {"stage5", "patch", "optimize", "build", "compare", "done"}
        /\ PortStageEnabled(f))
    => LET p == fragCheckIdx
           inst == builder.instructions[p + 1]
       IN /\ inst.Code = OpJset /\ inst.K = KFragMask
          /\ p + inst.JT = portCheckIndices[Len(portCheckIndices)] + 1
          /\ inst.JF = 0

\* C4: the generated program ends with ret #0x40000 then ret #0 and holds no
\* other return instruction.
C4_TerminalPairLast ==
    Generated =>
        LET prog == bpfCode.Instructions
            n == Len(prog)
        IN /\ n >= 2
           /\ prog[n - 1].Code = OpRet /\ prog[n - 1].K = KAccept
           /\ prog[n - 1].K # U32(0, 0)
           /\ prog[n].Code = OpRet /\ prog[n].K = U32(0, 0)
           /\ \A i \in 1..(n - 2) : prog[i].Code # OpRet

C4_Witness ==
    /\ pc = "done"
    /\ Len(bpfCode.Instructions) = 17
    /\ acceptIdx = 15 /\ rejectIdx = 16

\* C5: with no port set the generated program holds no fragment-info load, no
\* fragment check, no header-length load, no port load and no port check, and
\* none of its instructions is classified with one of the port-stage tags.
C5_NoPortStageWithoutPorts ==
    (Generated /\ f.SrcPort = 0 /\ f.DstPort = 0) =>
        LET prog == bpfCode.Instructions
        IN /\ \A i \in 1..Len(prog) :
                /\ ~(prog[i].Code = OpLdh /\ prog[i].K = KFragOff)
                /\ prog[i].Code \notin {OpJset, OpLdxb, OpLdhX}
           /\ portCheckIndices = <<>>
           /\ TagsOf(prog) \cap {LoadFragmentInfo, CheckFragment, LoadHeaderLength,
                                 LoadSourcePort, LoadDestPort,
                                 CheckSourcePort, CheckDestPort} = {}

C5_Witness ==
    /\ pc = "done"
    /\ f.SrcPort = 0 /\ f.DstPort = 0
    /\ f.Protocol = "udp" /\ f.SrcIP # NoIP /\ f.DstIP # NoIP
    /\ Len(bpfCode.Instructions) = 10

\* C6 (as the specification states it): with exactly one port set there is
\* exactly one port check, and the classifier tags it CheckSourcePort when the
\* source port is the one set and CheckDestPort when the destination port is.
C6_OnePortCheckTaggedBySide ==
    (Generated /\ ((f.SrcPort # 0) # (f.DstPort # 0))) =>
        /\ Len(portCheckIndices) = 1
        /\ TagOf(GenInstr(portCheckIndices[1])) =
              (IF f.SrcPort # 0 THEN CheckSourcePort ELSE CheckDestPort)

-----------------------------------------------------------------------------
(* Properties of the comparison *)

\* the comparison of the five-instruction oracle with the program generated
\* for {protocol = tcp, destPort = 80} has been made
C7_Case == pc = "done" /\ f = FilterTcpDport80 /\ tcpBPF = FiveTagOracle

\* C7 (as the specification states it): that comparison scores 1.0.
C7_OracleScoresOne ==
    C7_Case => (result.Score.num = result.Score.den /\ result.Score.den > 0)

\* C7 (amended): that comparison scores 5/11 with the PARTIAL verdict: the five
\* tags of the oracle are matched once each, and the generated program carries
\* six further tags, each recorded once as extra.
C7_OracleScoresFiveElevenths ==
    C7_Case =>
        /\ result.Score = Fraction(5, 11)
        /\ result.Verdict = VerdictPartial
        /\ SeqRange(result.Matches) =
              {MatchEntry(t, 1) : t \in {CheckIP, CheckProtocol, CheckDestPort,
                                         Accept, Reject}}
        /\ Len(result.Matches) = 5
        /\ SeqRange(result.ExtraInPrototype) =
              {ExtraEntry(t, 1) : t \in {LoadEtherType, LoadProtocol, LoadFragmentInfo,
                                         CheckFragment, LoadHeaderLength, LoadDestPort}}
        /\ Len(result.ExtraInPrototype) = 6
        /\ result.Differences = <<>>
        /\ result.MissingInPrototype = <<>>

C7_Witness == C7_Case /\ Len(protoBPF) = 11 /\ Len(result.Matches) = 5

\* C8: Compare(P, P) scores 1.0 with the plain EXCELLENT verdict, empty
\* Differences, MissingInPrototype, ExtraInPrototype and StructuralDiffs, and
\* Matches holds one entry per distinct tag of P plus "Same instruction count".
C8_SelfComparison ==
    (pc = "done" /\ tcpBPF = protoBPF) =>
        /\ result.Score.num = result.Score.den /\ result.Score.den > 0
        /\ result.Verdict = VerdictExcellent
        /\ result.Differences = <<>>
        /\ result.MissingInPrototype = <<>>
        /\ result.ExtraInPrototype = <<>>
        /\ result.StructuralDiffs = <<>>
        /\ Len(result.Matches) = Cardinality(TagsOf(tcpBPF)) + 1
        /\ SeqRange(result.Matches) =
              {MatchEntry(t, TagCount(tcpBPF, t)) : t \in TagsOf(tcpBPF)}
                 \cup {<<"Same", "instruction", "count">>}

C8_Witness ==
    /\ pc = "done" /\ tcpBPF = protoBPF
    /\ Len(tcpBPF) = 2 /\ Cardinality(TagsOf(tcpBPF)) = 2
    /\ Len(result.Matches) = 3

\* C9 (as the specification states it): two programs of zero instructions
\* give score 0 and the INCONCLUSIVE verdict.
C9_EmptyIsInconclusive ==
    (pc = "done" /\ tcpBPF = <<>> /\ protoBPF = <<>>) =>
        /\ result.Score.num = 0
        /\ result.Verdict = VerdictInconclusive

\* C10: the score is |Matches| / (|Matches| + |Differences| +
\* |MissingInPrototype| + |ExtraInPrototype|) whenever that sum is not zero,
\* whatever StructuralDiffs holds, and 0 <= score <= 1.
C10_ScoreFormula ==
    pc = "done" =>
        LET m == Len(result.Matches)
            d == Len(result.Matches) + Len(result.Differences)
                   + Len(result.MissingInPrototype) + Len(result.ExtraInPrototype)
        IN /\ result.Score.den > 0
           /\ d # 0 => result.Score.num * d = m * result.Score.den
           /\ 0 <= result.Score.num
           /\ result.Score.num <= result.Score.den

C10_Witness ==
    /\ pc = "done"
    /\ Len(result.StructuralDiffs) = 2
    /\ result.ExtraInPrototype # <<>>
    /\ result.Score.num > 0 /\ result.Score.num < result.Score.den

\* the verdict without the critical prefix and suffix
BaseOf(verdict) == IF Len(verdict) = 3 THEN verdict[2] ELSE verdict[1]

\* the verdict carries the critical prefix, once
IsCritical(verdict) ==
    /\ Len(verdict) = 3
    /\ verdict[1] = "CRITICAL ISSUE: "
    /\ verdict[3] = " (Missing IP validation)"
    /\ <<verdict[2]>> \in {VerdictExcellent, VerdictGood, VerdictPartial, VerdictPoor}

\* C11: with a nonzero denominator the base verdict follows from the score
\* alone: EXCELLENT iff 5 * matches >= 4 * total, else GOOD iff 5 * matches >=
\* 3 * total, else PARTIAL iff 5 * matches >= 2 * total, else POOR.
C11_VerdictThresholds ==
    pc = "done" =>
        LET m == Len(result.Matches)
            t == Len(result.Matches) + Len(result.Differences)
                   + Len(result.MissingInPrototype) + Len(result.ExtraInPrototype)
        IN t # 0 =>
             <<BaseOf(result.Verdict)>> =
                (IF 5 * m >= 4 * t THEN VerdictExcellent
                 ELSE IF 5 * m >= 3 * t THEN VerdictGood
                 ELSE IF 5 * m >= 2 * t THEN VerdictPartial
                 ELSE VerdictPoor)

C11_Witness ==
    /\ pc = "done"
    /\ Len(result.Matches) = 4
    /\ Len(result.ExtraInPrototype) = 1
    /\ result.Differences = <<>> /\ result.MissingInPrototype = <<>>
    /\ result.Verdict = VerdictExcellent

\* C12: the verdict carries the CRITICAL ISSUE prefix exactly when the tag
\* CheckIP occurs in program A and not in program B, whatever the score, and
\* carries it once.
C12_CriticalIffCheckIPMissing ==
    pc = "done" =>
        /\ IsCritical(result.Verdict)
              <=> (CheckIP \in TagsOf(tcpBPF) /\ CheckIP \notin TagsOf(protoBPF))
        /\ ~IsCritical(result.Verdict) => Len(result.Verdict) = 1

C12_Witness ==
    /\ pc = "done"
    /\ CheckIP \in TagsOf(tcpBPF) /\ CheckIP \notin TagsOf(protoBPF)
    /\ {CheckProtocol, LoadProtocol} \subseteq TagsOf(tcpBPF)
    /\ result.Verdict = <<"CRITICAL ISSUE: ">> \o VerdictExcellent
                           \o <<" (Missing IP validation)">>

\* C13 (as the specification states it): Compare returns its four lists in
\* one fixed order, the order in which the tags are first met in the programs.
C13_ListsInFirstEncounterOrder ==
    pc = "done" =>
        LET ref == CompareResult(tcpBPF, protoBPF, 0, 0)
        IN /\ result.Matches = ref.Matches
           /\ result.Differences = ref.Differences
           /\ result.MissingInPrototype = ref.MissingInPrototype
           /\ result.ExtraInPrototype = ref.ExtraInPrototype

-----------------------------------------------------------------------------
(* Properties of the classifier *)

\* the dispatch table of the specification, on opcode and immediate
TableTag(code, k) ==
    LET small == IF k[1] = 0 THEN k[2] ELSE -1
    IN CASE code = 40 /\ small = 12 -> 0
         [] code = 40 /\ small = 20 -> 8
         [] code = 48 /\ small = 23 -> 2
         [] code = 32 /\ small = 26 -> 4
         [] code = 32 /\ small = 30 -> 6
         [] code = 72 /\ small = 14 -> 11
         [] code = 72 /\ small = 16 -> 12
         [] code = 21 /\ small = 2048 -> 1
         [] code = 21 /\ small \in {6, 17, 1} -> 3
         [] code = 21 /\ small \in (1..65535) \ {2048, 6, 17, 1} -> 14
         [] code = 21 /\ k[1] >= 49152 -> 5
         [] code = 69 /\ small = 8191 -> 9
         [] code = 177 -> 10
         [] code = 6 /\ k # <<0, 0>> -> 15
         [] code = 6 /\ k = <<0, 0>> -> 16
         [] OTHER -> 17

\* C14: analyzeInstruction returns, for every opcode and immediate, the tag of
\* the dispatch table, with Value the immediate and Index the given index, and
\* the tag is the same for every jt, jf and index.
C14_ClassifierFollowsTable ==
    call.op = "analyzeInstruction" =>
        /\ call.ret.Type \in 0..17
        /\ call.ret.Type = TableTag(call.code, call.k)
        /\ call.ret.Value = call.k
        /\ call.ret.Index = call.index
        /\ \A jt \in ClassifyBranches, jf \in ClassifyBranches, i \in ClassifyIndices :
              analyzeInstruction(call.code, jt, jf, call.k, i).Type = call.ret.Type

C14_Witness ==
    /\ call.op = "analyzeInstruction"
    /\ call.code = OpJeq /\ call.k = U32(0, 65535) /\ call.jt = 255 /\ call.index = 7
    /\ call.ret.Type = CheckDestPort /\ call.ret.Index = 7

-----------------------------------------------------------------------------
(* Properties of the builder *)

\* C15 (as the specification states it): UpdateJumpTargets with a position
\* >= the length or < 0 raises no failure and leaves the builder as it was.
C15_OutOfRangeUpdateIsNoOp ==
    [][(/\ call'.op = "UpdateJumpTargets"
        /\ (call'.position >= Len(builder.instructions) \/ call'.position < 0))
          => builder' = builder]_vars

\* C16: the n-th AddInstruction call (from 0) returns n, the instruction it
\* appended is at position n with the given fields, and currentOffset is the
\* length of the instruction list.
C16_AddInstructionReturnsPosition ==
    /\ builder.currentOffset = Len(builder.instructions)
    /\ call.op = "AddInstruction" =>
          /\ call.ret = call.n
          /\ call.n + 1 = adds
          /\ Len(builder.instructions) >= call.n + 1
          /\ builder.instructions[call.n + 1].Code = call.code
          /\ builder.instructions[call.n + 1].K = call.k

C16_Witness ==
    /\ call.op = "AddInstruction"
    /\ call.ret = 1
    /\ builder.instructions[2].Code = OpRet
    /\ builder.instructions[1].JT = 2
    /\ builder.optimizations # <<>>

\* C17: UpdateJumpTargets with a position in range writes the two branch
\* fields of the instruction at that position and nothing else; AddOptimization
\* leaves the instruction list as it was.
C17_UpdateTouchesBranchFieldsOnly ==
    [][/\ (/\ call'.op = "UpdateJumpTargets"
           /\ call'.position >= 0
           /\ call'.position < Len(builder.instructions))
          => /\ Len(builder'.instructions) = Len(builder.instructions)
             /\ \A i \in 1..Len(builder.instructions) :
                   /\ builder'.instructions[i].Code = builder.instructions[i].Code
                   /\ builder'.instructions[i].K = builder.instructions[i].K
                   /\ i # call'.position + 1
                         => builder'.instructions[i] = builder.instructions[i]
             /\ builder'.instructions[call'.position + 1].JT = call'.jt
             /\ builder'.instructions[call'.position + 1].JF = call'.jf
             /\ builder'.optimizations = builder.optimizations
             /\ builder'.currentOffset = builder.currentOffset
       /\ call'.op = "AddOptimization"
          => builder'.instructions = builder.instructions]_vars

C17_Witness ==
    /\ call.op = "UpdateJumpTargets"
    /\ call.position = 0
    /\ Len(builder.instructions) = 2
    /\ builder.instructions[1].JT = 2 /\ builder.instructions[1].JF = 3
    /\ builder.instructions[2].JT = 1 /\ builder.instructions[2].JF = 0
    /\ builder.optimizations # <<>>

\* C19 (as the specification states it): once Build has returned a program, no
\* later call on the builder changes a field or the length of that program.
C19_ReturnedProgramNeverChanges ==
    [][built >= 0 =>
          ReturnedProgram(builder', built) = ReturnedProgram(builder, built)]_vars

-----------------------------------------------------------------------------
(* Properties of the address checks *)

\* the 32-bit big-endian integer of the address a.b.c.d
BigEndian32(ip) == U32(ip[1] * 256 + ip[2], ip[3] * 256 + ip[4])

\* C18 (as the specification states it): for a valid filter the immediate of
\* each emitted address check is the big-endian integer of the filter address.
C18_AddressImmediateIsBigEndian ==
    Generated =>
       /\ f.SrcIP # NoIP => GenInstr(srcIPCheckIdx).K = BigEndian32(f.SrcIP)
       /\ f.DstIP # NoIP => GenInstr(dstIPCheckIdx).K = BigEndian32(f.DstIP)

-----------------------------------------------------------------------------
(* Properties of the four lists *)

\* C20: each tag occurring in A or B gives exactly one entry in exactly one
\* list: Matches when in both with equal counts, Differences when in both with
\* different counts, MissingInPrototype when only in A, ExtraInPrototype when
\* only in B; Matches holds besides only the "Same instruction count" note;
\* Unknown is a tag like the others.
C20_OneEntryPerTag ==
    pc = "done" =>
        LET both == TagsOf(tcpBPF) \cap TagsOf(protoBPF)
            equal == {t \in both : TagCount(tcpBPF, t) = TagCount(protoBPF, t)}
            onlyA == TagsOf(tcpBPF) \ TagsOf(protoBPF)
            onlyB == TagsOf(protoBPF) \ TagsOf(tcpBPF)
            note == IF Len(tcpBPF) = Len(protoBPF)
                    THEN {<<"Same", "instruction", "count">>} ELSE {}
        IN /\ SeqRange(result.Matches)
                = {MatchEntry(t, TagCount(tcpBPF, t)) : t \in equal} \cup note
           /\ Len(result.Matches) = Cardinality(equal) + Cardinality(note)
           /\ SeqRange(result.Differences)
                = {DifferenceEntry(t, TagCount(tcpBPF, t), TagCount(protoBPF, t)) :
                      t \in both \ equal}
           /\ Len(result.Differences) = Cardinality(both \ equal)
           /\ SeqRange(result.MissingInPrototype)
                = {MissingEntry(t, TagCount(tcpBPF, t)) : t \in onlyA}
           /\ Len(result.MissingInPrototype) = Cardinality(onlyA)
           /\ SeqRange(result.ExtraInPrototype)
                = {ExtraEntry(t, TagCount(protoBPF, t)) : t \in onlyB}
           /\ Len(result.ExtraInPrototype) = Cardinality(onlyB)

C20_Witness ==
    /\ pc = "done"
    /\ TagsOf(tcpBPF) = {Unknown}
    /\ TagsOf(protoBPF) = {Unknown, LoadEtherType}
    /\ result.Differences = <<DifferenceEntry(Unknown, 2, 1)>>
    /\ result.ExtraInPrototype = <<ExtraEntry(LoadEtherType, 1)>>
    /\ result.Matches = <<<<"Same", "instruction", "count">>>>

-----------------------------------------------------------------------------
(* Properties of the structural pass *)

\* the number of positions of the list s that hold the entry e
Occurrences(s, e) == Cardinality({i \in 1..Len(s) : s[i] = e})

\* C21: "Same instruction count" is a match iff the two programs are equally
\* long, otherwise StructuralDiffs holds one entry with the size and the
\* direction of |B| - |A|; it holds one fragment entry iff B has a
\* CheckFragment tag and A has none, one address entry iff B has CheckSourceIP
\* or CheckDestIP and A has neither, and nothing else.
C21_StructuralPass ==
    pc = "done" =>
        LET nA == Len(tcpBPF)
            nB == Len(protoBPF)
            same == <<"Same", "instruction", "count">>
            delta == IF nB > nA THEN {<<"Prototype", "has", ToString(nB - nA), "more">>}
                     ELSE IF nB < nA
                          THEN {<<"Prototype", "has", ToString(nA - nB), "fewer">>}
                          ELSE {}
            frag == IF CheckFragment \in TagsOf(protoBPF) \ TagsOf(tcpBPF)
                    THEN {<<"Prototype", "includes", "fragment", "handling">>} ELSE {}
            addr == IF /\ TagsOf(protoBPF) \cap {CheckSourceIP, CheckDestIP} # {}
                       /\ TagsOf(tcpBPF) \cap {CheckSourceIP, CheckDestIP} = {}
                    THEN {<<"Prototype", "implements", "IP", "address", "filtering">>}
                    ELSE {}
        IN /\ Occurrences(result.Matches, same) = (IF nA = nB THEN 1 ELSE 0)
           /\ SeqRange(result.StructuralDiffs) = delta \cup frag \cup addr
           /\ Len(result.StructuralDiffs)
                = Cardinality(delta) + Cardinality(frag) + Cardinality(addr)

C21_Witness ==
    /\ pc = "done"
    /\ TagsOf(protoBPF) = {CheckFragment, CheckSourceIP}
    /\ TagsOf(tcpBPF) = {LoadEtherType}
    /\ result.StructuralDiffs =
          << <<"Prototype", "has", "1", "more">>,
             <<"Prototype", "includes", "fragment", "handling">>,
             <<"Prototype", "implements", "IP", "address", "filtering">> >>

-----------------------------------------------------------------------------
(* Properties of Compare as a function of the tag histograms *)

\* a orders before b by opcode, then by immediate
InstrBefore(a, b) ==
    \/ a.Code < b.Code
    \/ a.Code = b.Code /\ a.K[1] < b.K[1]
    \/ a.Code = b.Code /\ a.K[1] = b.K[1] /\ a.K[2] < b.K[2]

\* s without its element at position i
RemoveAt(s, i) == SubSeq(s, 1, i - 1) \o SubSeq(s, i + 1, Len(s))

\* the program with the same (opcode, immediate) multiset, in one fixed order
\* and with every branch field 0
RECURSIVE Canonical(_)
Canonical(prog) ==
    IF prog = <<>> THEN <<>>
    ELSE LET i == CHOOSE p \in 1..Len(prog) :
                     \A q \in 1..Len(prog) : ~InstrBefore(prog[q], prog[p])
         IN <<BPFInstruction(prog[i].Code, 0, 0, prog[i].K)>>
               \o Canonical(RemoveAt(prog, i))

\* the two programs have the same tags with the same counts
SameHistogram(a, b) ==
    /\ TagsOf(a) = TagsOf(b)
    /\ \A t \in TagsOf(a) : TagCount(a, t) = TagCount(b, t)

\* C22: score, verdict and the contents of the five lists are those of the
\* comparison of the two programs brought to one order with all branch fields
\* 0, so they do not change with the branch fields or the order of the
\* instructions; programs with the same histogram score 1.0 whatever their
\* wiring.
C22_WiringAndOrderIgnored ==
    pc = "done" =>
        LET ref == CompareResult(Canonical(tcpBPF), Canonical(protoBPF), 0, 0)
        IN /\ result.Score.num * ref.Score.den = ref.Score.num * result.Score.den
           /\ result.Verdict = ref.Verdict
           /\ SeqRange(result.Matches) = SeqRange(ref.Matches)
           /\ Len(result.Matches) = Len(ref.Matches)
           /\ SeqRange(result.Differences) = SeqRange(ref.Differences)
           /\ Len(result.Differences) = Len(ref.Differences)
           /\ SeqRange(result.MissingInPrototype) = SeqRange(ref.MissingInPrototype)
           /\ Len(result.MissingInPrototype) = Len(ref.MissingInPrototype)
           /\ SeqRange(result.ExtraInPrototype) = SeqRange(ref.ExtraInPrototype)
           /\ Len(result.ExtraInPrototype) = Len(ref.ExtraInPrototype)
           /\ SeqRange(result.StructuralDiffs) = SeqRange(ref.StructuralDiffs)
           /\ Len(result.StructuralDiffs) = Len(ref.StructuralDiffs)
           /\ SameHistogram(tcpBPF, protoBPF) => result.Score.num = result.Score.den

C22_Witness ==
    /\ pc = "done"
    /\ tcpBPF = <<BPFInstruction(OpJeq, 0, 0, KIPv4), BPFInstruction(OpLdh, 0, 0, KEtherType)>>
    /\ protoBPF = <<BPFInstruction(OpLdh, 0, 0, KEtherType), BPFInstruction(OpJeq, 1, 2, KIPv4)>>
    /\ result.Score = Fraction(3, 3)
    /\ result.Verdict = VerdictExcellent

-----------------------------------------------------------------------------
(* Properties of the missing and extra lists *)

\* the tags whose names are carried by the entries of a missing or extra list
\* (an entry is a leading word, the name, the count and a closing word)
TagsNamed(list) ==
    {t \in LoadEtherType..Unknown :
        \E i \in 1..Len(list) : SubSeq(list[i], 2, Len(list[i]) - 2) = TypeString(t)}

\* C23: when some tag occurs in exactly one of the programs, the entries of
\* MissingInPrototype name exactly the tags of A that B lacks, one entry
\* each, those of ExtraInPrototype exactly the tags of B that A lacks, and
\* the score is below 1.0.
C23_OneSidedTagsAreNamed ==
    (pc = "done" /\ TagsOf(tcpBPF) # TagsOf(protoBPF)) =>
        /\ TagsNamed(result.MissingInPrototype) = TagsOf(tcpBPF) \ TagsOf(protoBPF)
        /\ Len(result.MissingInPrototype)
             = Cardinality(TagsOf(tcpBPF) \ TagsOf(protoBPF))
        /\ TagsNamed(result.ExtraInPrototype) = TagsOf(protoBPF) \ TagsOf(tcpBPF)
        /\ Len(result.ExtraInPrototype)
             = Cardinality(TagsOf(protoBPF) \ TagsOf(tcpBPF))
        /\ result.Score.num < result.Score.den

C23_Witness ==
    /\ pc = "done"
    /\ TagsOf(tcpBPF) = {LoadEtherType, CheckIP, LoadProtocol, CheckProtocol}
    /\ TagsOf(protoBPF) = {LoadEtherType, CheckIP, CheckFragment, CheckSourceIP}
    /\ TagsNamed(result.MissingInPrototype) = {LoadProtocol, CheckProtocol}
    /\ TagsNamed(result.ExtraInPrototype) = {CheckFragment, CheckSourceIP}
    /\ result.Score = Fraction(3, 7)

-----------------------------------------------------------------------------
(* Properties of the icmp filters *)

PortTags == {LoadSourcePort, LoadDestPort, CheckSourcePort, CheckDestPort}

\* the reference program came from generateMockBPF
Mocked == call.op = "tcpdump.GenerateBPF" /\ call.IsMocked

\* C24: for a valid filter with protocol icmp neither the generated program
\* nor the program of the mock oracle holds an instruction tagged as a load
\* or a check of a source or destination port.
C24_IcmpHasNoPortTags ==
    f.Protocol = "icmp" =>
       /\ Generated => TagsOf(protoBPF) \cap PortTags = {}
       /\ (Mocked /\ pc \notin {"validate", "tcpdump", "invalid"})
             => TagsOf(tcpBPF) \cap PortTags = {}

C24_Witness ==
    /\ pc = "done"
    /\ f.Protocol = "icmp"
    /\ f.SrcIP = <<10, 0, 0, 1>>
    /\ f.DstIP = <<8, 8, 8, 8>>
    /\ Mocked
    /\ Len(tcpBPF) = 4
    /\ Len(protoBPF) = 10

-----------------------------------------------------------------------------
(* Properties of the shape of the generated program *)

\* stands for an immediate the shape leaves open
AnyK == <<-1, -1>>

\* one instruction of a shape
Slot(code, k) == [Code |-> code, K |-> k]

\* the instruction sequence the five stages give for the filter flt
ShapeOf(flt) ==
    LET anyPort == flt.SrcPort # 0 \/ flt.DstPort # 0
        code == CASE flt.Protocol = "tcp" -> 6
                  [] flt.Protocol = "udp" -> 17
                  [] flt.Protocol = "icmp" -> 1
                  [] OTHER -> 0
    IN <<Slot(40, <<0, 12>>), Slot(21, <<0, 2048>>)>>
       \o (IF flt.Protocol # ""
           THEN <<Slot(48, <<0, 23>>), Slot(21, <<0, code>>)>> ELSE <<>>)
       \o (IF flt.SrcIP # NoIP THEN <<Slot(32, <<0, 26>>), Slot(21, AnyK)>> ELSE <<>>)
       \o (IF flt.DstIP # NoIP THEN <<Slot(32, <<0, 30>>), Slot(21, AnyK)>> ELSE <<>>)
       \o (IF anyPort
           THEN <<Slot(40, <<0, 20>>), Slot(69, <<0, 8191>>), Slot(177, <<0, 14>>)>>
           ELSE <<>>)
       \o (IF flt.SrcPort # 0
           THEN <<Slot(72, <<0, 14>>), Slot(21, <<0, flt.SrcPort>>)>> ELSE <<>>)
       \o (IF flt.DstPort # 0
           THEN <<Slot(72, <<0, 16>>), Slot(21, <<0, flt.DstPort>>)>> ELSE <<>>)
       \o <<Slot(6, <<4, 0>>), Slot(6, <<0, 0>>)>>

\* 1 if the condition holds, else 0
Indicator(b) == IF b THEN 1 ELSE 0

\* the length the specification gives for the program of the filter flt
LengthOf(flt) ==
    4 + 2 * Indicator(flt.Protocol # "") + 2 * Indicator(flt.SrcIP # NoIP)
      + 2 * Indicator(flt.DstIP # NoIP)
      + (IF flt.SrcPort # 0 \/ flt.DstPort # 0
         THEN 3 + 2 * Indicator(flt.SrcPort # 0) + 2 * Indicator(flt.DstPort # 0)
         ELSE 0)

\* C25: for a valid filter the generated instructions are, by opcode and
\* immediate, the stages in their fixed order, each present iff its filter
\* field is set (the protocol check with 6, 17 or 1); the length is the sum
\* the specification gives, the error is nil and InstructionCount is the
\* length.  The program is a function of the filter.
C25_ProgramIsTheStagesInOrder ==
    Generated =>
        LET shape == ShapeOf(f)
            prog == bpfCode.Instructions
        IN /\ Len(prog) = Len(shape)
           /\ \A i \in 1..Len(shape) :
                 /\ i <= Len(prog)
                 /\ prog[i].Code = shape[i].Code
                 /\ shape[i].K # AnyK => prog[i].K = shape[i].K
           /\ Len(prog) = LengthOf(f)
           /\ bpfCode.InstructionCount = LengthOf(f)
           /\ bpfCode.err = "nil"
           /\ protoBPF = prog

C25_Witness ==
    /\ pc = "done"
    /\ f.Protocol = "udp"
    /\ f.SrcIP # NoIP /\ f.DstIP # NoIP
    /\ f.SrcPort = 2048 /\ f.DstPort = 80
    /\ Len(bpfCode.Instructions) = 17
    /\ bpfCode.Instructions[4] = BPFInstruction(OpJeq, 12, 13, U32(0, 17))

-----------------------------------------------------------------------------
(* Properties of the dump parser *)

\* one or more digits
IsDecimalText(s) == s # <<>> /\ \A i \in 1..Len(s) : s[i] \in Digits

\* a digit text without its leading zeros
RECURSIVE StripZeros(_)
StripZeros(s) == IF Len(s) > 1 /\ Head(s) = "0" THEN StripZeros(Tail(s)) ELSE s

\* a <= b for digit texts of one length
RECURSIVE DigitsLE(_, _)
DigitsLE(a, b) ==
    \/ a = <<>>
    \/ DigitValue(Head(a)) < DigitValue(Head(b))
    \/ Head(a) = Head(b) /\ DigitsLE(Tail(a), Tail(b))

\* the digit text s is a number of at most the number of the digit text max
DecimalAtMost(s, max) ==
    LET t == StripZeros(s)
    IN Len(t) < Len(max) \/ (Len(t) = Len(max) /\ DigitsLE(t, max))

\* a decimal field in 0..max
FieldInRange(s, max) == IsDecimalText(s) /\ DecimalAtMost(s, max)

\* four decimal fields in the ranges of opcode, jt, jf and immediate
LineWellFormed(fields) ==
    /\ Len(fields) = 4
    /\ FieldInRange(fields[1], <<"6", "5", "5", "3", "5">>)
    /\ FieldInRange(fields[2], <<"2", "5", "5">>)
    /\ FieldInRange(fields[3], <<"2", "5", "5">>)
    /\ FieldInRange(fields[4], <<"4", "2", "9", "4", "9", "6", "7", "2", "9", "5">>)

\* the instruction carries the values of the four fields
InstructionOfLine(inst, fields) ==
    /\ Decimal(inst.Code) = StripZeros(fields[1])
    /\ Decimal(inst.JT) = StripZeros(fields[2])
    /\ Decimal(inst.JF) = StripZeros(fields[3])
    /\ DecimalU32(inst.K) = StripZeros(fields[4])

\* the count line is the decimal number n
CountIs(count, n) == IsDecimalText(count) /\ StripZeros(count) = Decimal(n)

\* the count line is the decimal number n, with or without a sign
SignedCountIs(count, n) ==
    \/ CountIs(count, n)
    \/ /\ count # <<>>
       /\ \/ Head(count) = "+" /\ CountIs(Tail(count), n)
          \/ Head(count) = "-" /\ CountIs(Tail(count), n) /\ n = 0

\* what the parser returns on a dump, given whether its count line is good
ParserAnswers(countGood) ==
    LET wellFormed == /\ countGood
                      /\ \A i \in 1..Len(call.lines) : LineWellFormed(call.lines[i])
    IN /\ call.err = "nil" <=> wellFormed
       /\ call.err = "nil" =>
             /\ Len(call.instructions) = Len(call.lines)
             /\ \A i \in 1..Len(call.lines) :
                   InstructionOfLine(call.instructions[i], call.lines[i])
       /\ call.err # "nil" => call.instructions = <<>>
       /\ call.layout = "mock" =>
             call.err = "nil" /\ call.instructions = tcpBPF

\* C26 (as the specification states it): the parser accepts a dump exactly
\* when its first line is a decimal count N, N lines follow and each has four
\* decimal fields in range; it then returns the N instructions of the lines,
\* and an error and no instruction otherwise; the dump of the mock oracle
\* parses to the instructions of the mock oracle.
C26_ParserAcceptsExactlyTheFormat ==
    pc = "parsed" => ParserAnswers(CountIs(call.count, Len(call.lines)))

\* C26 (amended): the same, where the count line may carry a sign: "+N" is
\* read as N and "-0" as 0.
C26_ParserAcceptsSignedCount ==
    pc = "parsed" => ParserAnswers(SignedCountIs(call.count, Len(call.lines)))

C26_Witness ==
    /\ pc = "parsed"
    /\ call.count = <<"+", "1">>
    /\ call.layout = "padded"
    /\ call.err = "nil"
    /\ call.instructions = <<BPFInstruction(65535, 255, 255, U32(65535, 65535))>>

-----------------------------------------------------------------------------
(* Properties of the branch offsets of the generated program *)

\* C27 (as the specification states it): in the generated program both
\* p + jt and p + jf of every instruction at position p are positions of the
\* program, and an instruction that does not branch has jt = jf = 0.
C27_BranchesStayInside ==
    Generated =>
        \A p \in 0..(Len(bpfCode.Instructions) - 1) :
           /\ p + GenInstr(p).JT < Len(bpfCode.Instructions)
           /\ p + GenInstr(p).JF < Len(bpfCode.Instructions)
           /\ GenInstr(p).Code \notin {21, 69}
                 => GenInstr(p).JT = 0 /\ GenInstr(p).JF = 0

\* C28: every value the generator converts to uint8 is in 0..255, so the
\* stored offset is the value itself: accept and reject position minus the
\* position of each equality check, and the number of instructions plus one
\* at the patch of the fragment check (the program less its terminal pair);
\* no generated program has more than 17 instructions.
C28_OffsetsFitEightBits ==
    Generated =>
        LET n == Len(bpfCode.Instructions)
        IN /\ n <= 17
           /\ acceptIdx = n - 2 /\ rejectIdx = n - 1
           /\ \A p \in EqualityCheckPositions :
                 /\ acceptIdx - p \in 0..255
                 /\ rejectIdx - p \in 0..255
                 /\ GenInstr(p).JT = acceptIdx - p
                 /\ GenInstr(p).JF = rejectIdx - p
           /\ fragCheckIdx >= 0 =>
                 /\ (n - 2) + 1 \in 0..255
                 /\ GenInstr(fragCheckIdx).JT = (n - 2) + 1

C28_Witness ==
    /\ pc = "done"
    /\ Len(bpfCode.Instructions) = 17
    /\ fragCheckIdx = 9
    /\ GenInstr(fragCheckIdx).JT = 16
    /\ GenInstr(1).JT = 14 /\ GenInstr(1).JF = 15

-----------------------------------------------------------------------------
(* Properties of the tags the classifier never gives *)

\* C29: analyzeInstruction never returns CheckSourcePort or CheckDestIP: an
\* equality check on 1..65535 is CheckDestPort, or CheckProtocol for 1, 6 and
\* 17 and CheckIP for 2048; one on an immediate >= 0xc0000000 is
\* CheckSourceIP, one on 65536..0xbfffffff is Unknown.
C29_NoSourcePortNoDestIP ==
    call.op = "analyzeInstruction" =>
        LET small == IF call.k[1] = 0 THEN call.k[2] ELSE -1
        IN /\ call.ret.Type \notin {CheckSourcePort, CheckDestIP}
           /\ call.code = 21 =>
                /\ small \in {1, 6, 17} => call.ret.Type = CheckProtocol
                /\ small = 2048 => call.ret.Type = CheckIP
                /\ small \in (1..65535) \ {1, 6, 17, 2048}
                      => call.ret.Type = CheckDestPort
                /\ call.k[1] >= 49152 => call.ret.Type = CheckSourceIP
                /\ call.k[1] \in 1..49151 => call.ret.Type = Unknown

C29_Witness ==
    /\ call.op = "analyzeInstruction"
    /\ call.code = 21
    /\ call.k = U32(2560, 1)
    /\ call.ret.Type = Unknown

-----------------------------------------------------------------------------
(* Properties of the perfect score *)

\* C30: the score is 1.0 iff the two programs have the same tags with the
\* same counts; then they are equally long, "Same instruction count" is a
\* match, and Differences, MissingInPrototype, ExtraInPrototype and
\* StructuralDiffs are empty.
C30_PerfectScoreIffSameHistogram ==
    pc = "done" =>
        /\ (result.Score.num = result.Score.den /\ result.Score.den > 0)
              <=> SameHistogram(tcpBPF, protoBPF)
        /\ SameHistogram(tcpBPF, protoBPF) =>
              /\ Len(tcpBPF) = Len(protoBPF)
              /\ Occurrences(result.Matches, <<"Same", "instruction", "count">>) = 1
              /\ result.Differences = <<>>
              /\ result.MissingInPrototype = <<>>
              /\ result.ExtraInPrototype = <<>>
              /\ result.StructuralDiffs = <<>>

C30_Witness ==
    /\ pc = "done"
    /\ tcpBPF # protoBPF
    /\ Len(tcpBPF) = 2
    /\ TagsOf(tcpBPF) = {CheckFragment, CheckSourceIP}
    /\ SameHistogram(tcpBPF, protoBPF)
    /\ result.Score = Fraction(3, 3)

====
